---------------------------- MODULE Spec2Model ----------------------------
(***************************************************************************)
(* Indicator & scoring engine and candidate selection of the               *)
(* stock-recommendation repository.  Every program file of the repository  *)
(* is one variant of the same pipeline:                                    *)
(*                                                                         *)
(*   universe --(per-instrument analysis)--> results --(selection)--> out  *)
(*                                                                         *)
(* Units.  Indicator values are floats in the source; the model keeps them *)
(* as scaled integers so that every comparison of the source is exact:     *)
(*   rsi            whole points (inputs are chosen with gain+loss = 100)  *)
(*   disparity      tenths of a percent (1000 = price at the 20d average)  *)
(*   volume_ratio   percent (100 = volume at its average)                  *)
(*   pbr            hundredths (100 = PBR 1.0)                             *)
(*   ret5, rebound  whole percent                                          *)
(*   tv             trading value in units of 100 million won (5 = 5억)    *)
(*   score          points; tenths of a point in the v3.3 variant, whose   *)
(*                  bucket weights are fractional (30 * 0.67 = 20.1)       *)
(***************************************************************************)
EXTENDS Integers, Sequences, FiniteSets, TLC

VARIABLES
    variant,    \* which program file runs
    universe,   \* the market snapshot: one input record per instrument
    all_stocks, \* the instruments (indices of universe) in scan order
    pc,         \* "scan" | "select" | "done" | "crashed"
    idx,        \* next instrument to analyse
    analyzed,   \* locals of every per-instrument analysis, in scan order
    results,    \* what the analyses returned (the result list)
    out,        \* the selection result handed to the report
    run,        \* 1 for the first run of the program, 2 for a second run
    prev,       \* what the first run left: its analyses and its selection
    pool,       \* the tasks of Pool.map: one per instrument
    financials_db, \* financials.db, the SQLite file every CacheManager opens
    calls,      \* what the cache-backed calls of main returned so far
    dart        \* the clock and the requests sent to the DART API

vars == <<variant, universe, all_stocks, pc, idx, analyzed, results, out, run, prev,
          pool, financials_db, calls, dart>>

\* what the sequential view of the scan leaves alone
others == <<pool, financials_db, calls, dart>>

(***************************************************************************)
(* Bounds of the model.  TARGET_COUNT (30), the leaderboard size (5) and   *)
(* the group size (5) are scaled down with the universe.                   *)
(***************************************************************************)
NumStocks == 3
TopN == 2
LeaderK == 1
GroupM == 2
MaxTv == 9

\* MIN_TRADING_VALUE = 500_000_000 won, in units of 100 million won
MIN_TRADING_VALUE == 5

\* float('nan'): what 0/0 yields in `rs = gain / loss`
NaN == 99999
\* Python's None for an optional value
None == 88888

Min(a, b) == IF a < b THEN a ELSE b
Max(a, b) == IF a > b THEN a ELSE b

\* s[:n]
Take(s, n) == SubSeq(s, 1, Min(n, Len(s)))

Reverse(s) == [i \in 1..Len(s) |-> s[Len(s) + 1 - i]]

\* float comparison a < b: False as soon as one side is nan
Less(a, b) == a # NaN /\ b # NaN /\ a < b

\* unary minus on a float key: -nan is nan
Neg(a) == IF a = NaN THEN NaN ELSE 0 - a

(***************************************************************************)
(* sorted(seq, key=...) of Python, for lists shorter than 64 elements:     *)
(* list.sort finds the initial run (ascending, or strictly descending and  *)
(* then reversed) and inserts the remaining elements by binary insertion.  *)
(* Only `key(x) < key(y)` is ever asked, so a nan key, for which every     *)
(* comparison is False, stays where the algorithm leaves it.  The argument *)
(* is a sequence of <<key, element>> pairs.                                *)
(***************************************************************************)
RECURSIVE RunEnd(_, _, _)
RunEnd(p, i, desc) ==
    IF i >= Len(p) THEN i
    ELSE IF Less(p[i + 1][1], p[i][1]) = desc THEN RunEnd(p, i + 1, desc)
         ELSE i

RECURSIVE BinPos(_, _, _, _)
BinPos(p, pivot, l, r) ==
    IF l >= r THEN l
    ELSE LET m == l + ((r - l) \div 2)
         IN  IF Less(pivot, p[m + 1][1]) THEN BinPos(p, pivot, l, m)
             ELSE BinPos(p, pivot, m + 1, r)

InsertAt(s, pos, x) == SubSeq(s, 1, pos) \o <<x>> \o SubSeq(s, pos + 1, Len(s))

RECURSIVE BinarySort(_, _)
BinarySort(prefix, rest) ==
    IF rest = <<>> THEN prefix
    ELSE BinarySort(
             InsertAt(prefix, BinPos(prefix, Head(rest)[1], 0, Len(prefix)), Head(rest)),
             Tail(rest))

PySortPairs(p) ==
    IF Len(p) < 2 THEN p
    ELSE LET desc == Less(p[2][1], p[1][1])
             e    == RunEnd(p, 2, desc)
             first == SubSeq(p, 1, e)
         IN  BinarySort(IF desc THEN Reverse(first) ELSE first,
                        SubSeq(p, e + 1, Len(p)))

Unpair(p) == [i \in 1..Len(p) |-> p[i][2]]

\* sorted(s, key=lambda x: x[f]) and sorted(s, key=lambda x: -x[f])
sorted_asc(s, f) == Unpair(PySortPairs([i \in 1..Len(s) |-> <<s[i][f], s[i]>>]))
sorted_desc(s, f) == Unpair(PySortPairs([i \in 1..Len(s) |-> <<Neg(s[i][f]), s[i]>>]))

\* sorted(s, key=lambda x: (-x['score'], -x['trading_value'])): tuples compare
\* lexicographically, which the single key -(score * (MaxTv + 1) + tv) preserves
sorted_score_tv(s) ==
    Unpair(PySortPairs([i \in 1..Len(s) |->
        <<0 - (s[i].score * (MaxTv + 1) + s[i].tv), s[i]>>]))

\* sorted(s, key=lambda x: x[f], reverse=True): reverse, sort ascending,
\* reverse again, so that equal keys keep their original order
sorted_reverse(s, f) ==
    Reverse(Unpair(PySortPairs([i \in 1..Len(s) |->
        <<Reverse(s)[i][f], Reverse(s)[i]>>])))

(***************************************************************************)
(* The record every analysis leaves behind (its locals at the return).     *)
(*   scored    the analysis reached the scoring code                       *)
(*   returned  it returned a candidate (not None)                          *)
(*   points    the per-indicator points, in the order they are summed      *)
(* A field a variant does not compute keeps the value of Blank.            *)
(***************************************************************************)
Blank(id) ==
    [id |-> id, scored |-> FALSE, returned |-> FALSE, score |-> 0, points |-> <<>>,
     tv |-> 0, rsi |-> None, disparity |-> None, volume_ratio |-> None,
     pbr |-> None, ret5 |-> None, rebound |-> None,
     risk_count |-> 0, risk_score |-> 0, risk_level |-> "none"]

\* rs = gain / loss; rsi = 100 - (100 / (1 + rs)) on pandas Series:
\* loss = 0 gives rs = inf and rsi = 100, but 0/0 gives nan
rsi_pandas(gain, loss) ==
    IF loss = 0 THEN (IF gain = 0 THEN NaN ELSE 100)
    ELSE (100 * gain) \div (gain + loss)

(***************************************************************************)
(* stock_swing_trading.py (v4.2.18): analyze_stock_worker                  *)
(***************************************************************************)
worker_rsi_score(rsi) ==
    IF Less(rsi, 30) THEN 30 ELSE IF Less(rsi, 40) THEN 20
    ELSE IF Less(rsi, 50) THEN 10 ELSE 0

worker_disparity_score(disparity) ==
    IF disparity < 950 THEN 20 ELSE IF disparity < 980 THEN 15
    ELSE IF disparity < 1000 THEN 10 ELSE 0

worker_volume_score(volume_ratio) ==
    IF volume_ratio >= 150 THEN 15 ELSE IF volume_ratio >= 120 THEN 10
    ELSE IF volume_ratio >= 100 THEN 5 ELSE 0

\* pbr_value = current_price / bps_value if bps_value > 0 else None
worker_pbr_value(s) == IF s.equity > 0 THEN s.pbr ELSE None

\* `if pbr_value:` is False for None and for 0.0
worker_pbr_score(pbr_value) ==
    IF pbr_value = None \/ pbr_value = 0 THEN 0
    ELSE IF pbr_value < 100 THEN 15 ELSE IF pbr_value < 150 THEN 10
    ELSE IF pbr_value < 200 THEN 5 ELSE 0

worker_returns_score(returns_5d) ==
    IF 0 - 5 <= returns_5d /\ returns_5d <= 0 THEN 10
    ELSE IF 0 - 10 <= returns_5d /\ returns_5d < 0 - 5 THEN 5 ELSE 0

worker_rebound_score(rebound_strength) ==
    IF rebound_strength >= 5 THEN 10 ELSE IF rebound_strength >= 3 THEN 5 ELSE 0

\* the weights of the risk factors that apply, in the order of the code
worker_risk_weights(s, pbr_value) ==
       (IF s.halted \/ s.tv = 0 THEN <<100>> ELSE <<>>)
    \o (IF s.managed THEN <<80>> ELSE <<>>)
    \o (IF pbr_value # None /\ pbr_value > 500 THEN <<80>>
        ELSE IF s.equity < 0 THEN <<80>> ELSE <<>>)
    \o (IF s.net_income < 0 THEN <<50>> ELSE <<>>)
    \o (IF s.volatility_range > 50 THEN <<25>> ELSE <<>>)
    \o (IF s.rebound > 30 THEN <<25>> ELSE <<>>)
    \o (IF s.volume_ratio > 500 THEN <<20>> ELSE <<>>)
    \o (IF s.disparity > 1200 THEN <<15>> ELSE <<>>)
    \o (IF pbr_value # None /\ pbr_value # 0 /\ pbr_value > 300 THEN <<20>> ELSE <<>>)

RECURSIVE SumSeq(_)
SumSeq(w) == IF w = <<>> THEN 0 ELSE Head(w) + SumSeq(Tail(w))

worker_risk_level(risk_score) ==
    IF risk_score >= 70 THEN "High" ELSE IF risk_score >= 30 THEN "Medium" ELSE "Low"

\* variation: the penalty without the floor at 0
worker_penalty_unfloored(total_score, disparity) ==
    IF disparity > 1000
    THEN total_score - (((disparity - 1000) * 2) \div 10)
    ELSE total_score

\* penalty = int((disparity - 100) * 2); total_score = max(0, total_score - penalty)
worker_penalty(total_score, disparity) ==
    IF disparity > 1000
    THEN Max(0, total_score - (((disparity - 1000) * 2) \div 10))
    ELSE total_score

analyze_stock_worker_locals(id, s) ==
    IF s.raises \/ s.histlen < 20 THEN Blank(id)
    ELSE LET current_rsi == rsi_pandas(s.gain, s.loss)
             pbr_value   == worker_pbr_value(s)
             rsi_score   == worker_rsi_score(current_rsi)
             disparity_score == worker_disparity_score(s.disparity)
             volume_score == worker_volume_score(s.volume_ratio)
             pbr_score   == worker_pbr_score(pbr_value)
             returns_score == worker_returns_score(s.ret5)
             rebound_score == worker_rebound_score(s.rebound)
             total_score == rsi_score + disparity_score + volume_score + pbr_score
                            + returns_score + rebound_score
             weights     == worker_risk_weights(s, pbr_value)
         IN  [id |-> id, scored |-> TRUE, returned |-> TRUE,
              score |-> worker_penalty(total_score, s.disparity),
              points |-> <<rsi_score, disparity_score, volume_score, pbr_score,
                           returns_score, rebound_score>>,
              tv |-> s.tv, rsi |-> current_rsi, disparity |-> s.disparity,
              volume_ratio |-> s.volume_ratio, pbr |-> pbr_value,
              ret5 |-> s.ret5, rebound |-> s.rebound,
              risk_count |-> Len(weights), risk_score |-> SumSeq(weights),
              risk_level |-> worker_risk_level(SumSeq(weights))]

(***************************************************************************)
(* The selection result.  A leaderboard or group a variant does not        *)
(* compute stays empty; Boards(v) and Groups(v) name the ones it computes. *)
(***************************************************************************)
NoBoards ==
    [rsi |-> <<>>, disparity |-> <<>>, volume |-> <<>>, pbr |-> <<>>,
     ret5 |-> <<>>, rebound |-> <<>>]

NoGroups ==
    [aggressive |-> <<>>, balanced |-> <<>>, conservative |-> <<>>,
     high_score |-> <<>>, medium_score |-> <<>>]

NoOutput == [admitted |-> <<>>, top |-> <<>>, boards |-> NoBoards, groups |-> NoGroups]

\* what a run leaves behind for the comparison with a second run: nothing yet
NoRun == [analyzed |-> <<>>, out |-> NoOutput]

\* the indicator a leaderboard ranks
BoardField(b) ==
    CASE b = "rsi" -> "rsi" [] b = "disparity" -> "disparity"
      [] b = "volume" -> "volume_ratio" [] b = "pbr" -> "pbr"
      [] b = "ret5" -> "ret5" [] b = "rebound" -> "rebound"

InSeq(x, s) == \E i \in 1..Len(s) : s[i] = x

\* variation: the risk filters without their upper limits
swing_groups_no_upper_limit(top_stocks) ==
    LET top30 == Take(top_stocks, TopN)
        balanced0 ==
            Take(sorted_desc(SelectSeq(top30, LAMBDA x : 30 <= x.risk_score), "score"),
                 GroupM)
        low_risk ==
            SelectSeq(top30, LAMBDA x : x.risk_score < 30 /\ ~InSeq(x, balanced0))
        conservative0 ==
            Take(sorted_desc(SelectSeq(top30, LAMBDA x : x.risk_score < 30), "score"),
                 GroupM)
        medium_risk ==
            SelectSeq(top30, LAMBDA x : 30 <= x.risk_score /\ ~InSeq(x, conservative0))
    IN  [NoGroups EXCEPT
            !.aggressive = Take(sorted_desc(top30, "score"), GroupM),
            !.balanced =
                balanced0 \o Take(sorted_desc(low_risk, "score"), GroupM - Len(balanced0)),
            !.conservative =
                conservative0
                \o Take(sorted_desc(medium_risk, "score"), GroupM - Len(conservative0))]

(***************************************************************************)
(* stock_swing_trading.py: main (aggregation part) and generate_html       *)
(***************************************************************************)
\* variation: the backfill draws from all of top_stocks[:30] and does not
\* skip the members the group already has
swing_groups_backfill_unfiltered(top_stocks) ==
    LET top30 == Take(top_stocks, TopN)
        by_score == sorted_desc(top30, "score")
        balanced0 ==
            Take(sorted_desc(SelectSeq(top30,
                LAMBDA x : 30 <= x.risk_score /\ x.risk_score < 70), "score"), GroupM)
        conservative0 ==
            Take(sorted_desc(SelectSeq(top30,
                LAMBDA x : x.risk_score < 30), "score"), GroupM)
    IN  [NoGroups EXCEPT
            !.aggressive = Take(by_score, GroupM),
            !.balanced = balanced0 \o Take(by_score, GroupM - Len(balanced0)),
            !.conservative =
                conservative0 \o Take(by_score, GroupM - Len(conservative0))]

\* investor groups, computed from top_stocks[:30]
swing_groups(top_stocks) ==
    LET top30 == Take(top_stocks, TopN)
        aggressive_stocks == Take(sorted_desc(top30, "score"), GroupM)
        balanced_filtered ==
            SelectSeq(top30, LAMBDA x : 30 <= x.risk_score /\ x.risk_score < 70)
        balanced0 == Take(sorted_desc(balanced_filtered, "score"), GroupM)
        low_risk ==
            SelectSeq(top30, LAMBDA x : x.risk_score < 30 /\ ~InSeq(x, balanced0))
        balanced_stocks ==
            IF Len(balanced0) < GroupM
            THEN balanced0 \o Take(sorted_desc(low_risk, "score"), GroupM - Len(balanced0))
            ELSE balanced0
        conservative_filtered == SelectSeq(top30, LAMBDA x : x.risk_score < 30)
        conservative0 == Take(sorted_desc(conservative_filtered, "score"), GroupM)
        medium_risk ==
            SelectSeq(top30, LAMBDA x : 30 <= x.risk_score /\ x.risk_score < 50
                                         /\ ~InSeq(x, conservative0))
        conservative_stocks ==
            IF Len(conservative0) < GroupM
            THEN conservative0
                 \o Take(sorted_desc(medium_risk, "score"), GroupM - Len(conservative0))
            ELSE conservative0
    IN  [NoGroups EXCEPT !.aggressive = aggressive_stocks,
                         !.balanced = balanced_stocks,
                         !.conservative = conservative_stocks]

\* per-indicator TOP5, computed from the top_stocks it is handed
swing_boards(top_stocks) ==
    [NoBoards EXCEPT
        !.rsi = Take(sorted_asc(top_stocks, "rsi"), LeaderK),
        !.disparity = Take(sorted_asc(top_stocks, "disparity"), LeaderK),
        !.volume = Take(sorted_desc(top_stocks, "volume_ratio"), LeaderK),
        !.rebound = Take(sorted_desc(top_stocks, "rebound"), LeaderK),
        !.pbr = Take(sorted_asc(
                    SelectSeq(top_stocks, LAMBDA x : x.pbr # None /\ x.pbr # 0),
                    "pbr"), LeaderK)]

\* variation: main without the 50-point floor
swing_main_no_floor(res) ==
    LET valid_results == sorted_score_tv(SelectSeq(res, LAMBDA r : r.returned))
        top_stocks == Take(valid_results, TopN)
    IN  [admitted |-> valid_results, top |-> top_stocks,
         boards |-> swing_boards(top_stocks), groups |-> swing_groups(top_stocks)]

swing_main(res) ==
    LET valid_results ==
            sorted_score_tv(SelectSeq(res, LAMBDA r : r.returned /\ r.score >= 50))
        top_stocks == Take(valid_results, TopN)
    IN  [admitted |-> valid_results, top |-> top_stocks,
         boards |-> swing_boards(top_stocks), groups |-> swing_groups(top_stocks)]

(***************************************************************************)
(* pandas: a None or nan cell of a numeric column is a missing value       *)
(***************************************************************************)
isna(x) == x = None \/ x = NaN

\* float comparison a <= b: False as soon as one side is nan
Leq(a, b) == a # NaN /\ b # NaN /\ a <= b

\* df.sort_values(col, ascending=False): equal keys keep the frame's order
\* (the order numpy's sort yields on frames of this size)
sort_values_desc(df, f) == sorted_desc(df, f)

\* df.nsmallest(n, col) / df.nlargest(n, col), keep='first': the rows with a
\* value in rank order, then the rows with a missing value, cut to n rows
nsmallest(df, n, f) ==
    Take(sorted_asc(SelectSeq(df, LAMBDA x : ~isna(x[f])), f)
         \o SelectSeq(df, LAMBDA x : isna(x[f])), n)

nlargest(df, n, f) ==
    Take(sorted_desc(SelectSeq(df, LAMBDA x : ~isna(x[f])), f)
         \o SelectSeq(df, LAMBDA x : isna(x[f])), n)

(***************************************************************************)
(* stock_swing_trading_v3.8.py                                             *)
(***************************************************************************)
\* calculate_rsi: None when the computation raised
v38_calculate_rsi(s) == IF s.gain = None THEN None ELSE rsi_pandas(s.gain, s.loss)

\* calculate_pbr: pbr if pbr and pbr > 0 else None
\* a value that cannot be compared raises inside the try: None
v38_calculate_pbr(s) ==
    IF ~s.info_malformed /\ s.pbr # None /\ s.pbr > 0 THEN s.pbr ELSE None

v38_rsi_score(rsi) ==
    IF rsi = None THEN 0
    ELSE IF Leq(rsi, 30) THEN 30 ELSE IF Leq(rsi, 40) THEN 25
    ELSE IF Leq(rsi, 50) THEN 15 ELSE IF Leq(rsi, 60) THEN 10 ELSE 5

v38_disp_score(disparity) ==
    IF disparity = None THEN 0
    ELSE IF disparity <= 950 THEN 20 ELSE IF disparity <= 980 THEN 15
    ELSE IF disparity <= 1020 THEN 10 ELSE IF disparity <= 1050 THEN 5 ELSE 2

v38_vol_score(volume_ratio) ==
    IF volume_ratio = None THEN 0
    ELSE IF volume_ratio >= 150 THEN 15 ELSE IF volume_ratio >= 120 THEN 12
    ELSE IF volume_ratio >= 100 THEN 8 ELSE IF volume_ratio >= 80 THEN 5 ELSE 2

v38_pbr_score(pbr) ==
    IF pbr = None THEN 0
    ELSE IF pbr <= 50 THEN 15 ELSE IF pbr <= 100 THEN 12
    ELSE IF pbr <= 150 THEN 8 ELSE IF pbr <= 200 THEN 5 ELSE 2

v38_ret_score(return_5d) ==
    IF return_5d = None THEN 0
    ELSE IF return_5d >= 10 THEN 10 ELSE IF return_5d >= 5 THEN 8
    ELSE IF return_5d >= 0 THEN 5 ELSE IF return_5d >= 0 - 5 THEN 3 ELSE 1

v38_reb_score(rebound) ==
    IF rebound = None THEN 0
    ELSE IF rebound >= 80 THEN 10 ELSE IF rebound >= 60 THEN 8
    ELSE IF rebound >= 40 THEN 5 ELSE IF rebound >= 20 THEN 3 ELSE 1

\* variation: the rebound points shown but not added
v38_calculate_score_no_rebound(rsi, disparity, volume_ratio, pbr, return_5d, rebound) ==
    v38_rsi_score(rsi) + v38_disp_score(disparity) + v38_vol_score(volume_ratio)
    + v38_pbr_score(pbr) + v38_ret_score(return_5d)

v38_calculate_score(rsi, disparity, volume_ratio, pbr, return_5d, rebound) ==
    v38_rsi_score(rsi) + v38_disp_score(disparity) + v38_vol_score(volume_ratio)
    + v38_pbr_score(pbr) + v38_ret_score(return_5d) + v38_reb_score(rebound)

\* one iteration of the loop of analyze_all_stocks (min_volume = 5억)
v38_analyze_locals(id, s) ==
    IF s.raises \/ s.histlen < 20 \/ s.tv < 5 THEN [Blank(id) EXCEPT !.tv = s.tv]
    ELSE LET rsi == v38_calculate_rsi(s)
             pbr == v38_calculate_pbr(s)
             score == v38_calculate_score(rsi, s.disparity, s.volume_ratio, pbr,
                                          s.ret5, s.rebound)
         IN  [id |-> id, scored |-> TRUE, returned |-> TRUE,
              score |-> score,
              points |-> <<v38_rsi_score(rsi), v38_disp_score(s.disparity),
                           v38_vol_score(s.volume_ratio), v38_pbr_score(pbr),
                           v38_ret_score(s.ret5), v38_reb_score(s.rebound)>>,
              tv |-> s.tv, rsi |-> rsi, disparity |-> s.disparity,
              volume_ratio |-> s.volume_ratio, pbr |-> pbr,
              ret5 |-> s.ret5, rebound |-> s.rebound,
              risk_count |-> 0, risk_score |-> 0, risk_level |-> "none"]

\* variation: the investor groups are the best-scored rows
v38_generate_html_groups_by_score(df) ==
    LET df_filtered == sort_values_desc(SelectSeq(df, LAMBDA r : r.score >= 40), "score")
    IN  [admitted |-> df_filtered, top |-> Take(df_filtered, TopN),
         boards |->
            [rsi |-> nsmallest(df_filtered, LeaderK, "rsi"),
             disparity |-> nsmallest(df_filtered, LeaderK, "disparity"),
             volume |-> nlargest(df_filtered, LeaderK, "volume_ratio"),
             pbr |-> nsmallest(SelectSeq(df_filtered, LAMBDA x : ~isna(x.pbr)),
                               LeaderK, "pbr"),
             ret5 |-> nlargest(df_filtered, LeaderK, "ret5"),
             rebound |-> nlargest(df_filtered, LeaderK, "rebound")],
         groups |->
            [NoGroups EXCEPT !.conservative = Take(df_filtered, GroupM),
                             !.aggressive = Take(df_filtered, GroupM)]]

v38_generate_html(df) ==
    LET df_filtered == sort_values_desc(SelectSeq(df, LAMBDA r : r.score >= 40), "score")
        top_30 == Take(df_filtered, TopN)
    IN  [admitted |-> df_filtered, top |-> top_30,
         boards |->
            [rsi |-> nsmallest(df_filtered, LeaderK, "rsi"),
             disparity |-> nsmallest(df_filtered, LeaderK, "disparity"),
             volume |-> nlargest(df_filtered, LeaderK, "volume_ratio"),
             pbr |-> nsmallest(SelectSeq(df_filtered, LAMBDA x : ~isna(x.pbr)),
                               LeaderK, "pbr"),
             ret5 |-> nlargest(df_filtered, LeaderK, "ret5"),
             rebound |-> nlargest(df_filtered, LeaderK, "rebound")],
         groups |->
            [NoGroups EXCEPT !.conservative = nsmallest(df_filtered, GroupM, "rsi"),
                             !.aggressive = nlargest(df_filtered, GroupM, "rebound")]]

(***************************************************************************)
(* tock_swing_trading_v3.3_complete.py (scanner v3.3).                     *)
(* Scores are in tenths of a point: SCORE_WEIGHTS['rsi'] * 0.67 = 20.1.    *)
(***************************************************************************)
\* calculate_rsi: rsi.iloc[-1] if not pd.isna(rsi.iloc[-1]) else 50.0
v33_calculate_rsi(s) ==
    IF rsi_pandas(s.gain, s.loss) = NaN THEN 50 ELSE rsi_pandas(s.gain, s.loss)

v33_calculate_rsi_score(rsi) ==
    IF 20 <= rsi /\ rsi <= 25 THEN 300
    ELSE IF 25 < rsi /\ rsi <= 35 THEN 201
    ELSE IF 35 < rsi /\ rsi <= 45 THEN 99 ELSE 0

v33_calculate_disparity_score(disparity) ==
    IF 800 <= disparity /\ disparity <= 900 THEN 250
    ELSE IF 900 < disparity /\ disparity <= 950 THEN 200
    ELSE IF 950 < disparity /\ disparity <= 1000 THEN 100 ELSE 0

\* variation: the surge bucket is tested before the 150-300 bucket
v33_calculate_volume_score_surge_first(volume_ratio) ==
    IF volume_ratio >= 300 THEN 150
    ELSE IF 150 <= volume_ratio /\ volume_ratio <= 300 THEN 250
    ELSE IF 120 <= volume_ratio /\ volume_ratio < 150 THEN 200 ELSE 0

v33_calculate_volume_score(volume_ratio) ==
    IF 150 <= volume_ratio /\ volume_ratio <= 300 THEN 250
    ELSE IF 120 <= volume_ratio /\ volume_ratio < 150 THEN 200
    ELSE IF volume_ratio >= 300 THEN 150 ELSE 0

v33_calculate_pbr_score(pbr) ==
    IF pbr <= 0 THEN 0
    ELSE IF 30 <= pbr /\ pbr <= 70 THEN 200
    ELSE IF 70 < pbr /\ pbr <= 100 THEN 150
    ELSE IF 0 < pbr /\ pbr < 30 THEN 100 ELSE 0

\* assess_risk: market cap below 500억 (market_cap is in 억), price below
\* 5,000 won, (max - min) / min of the last 20 closes above 20 percent
v33_risk_factors(s) ==
      (IF s.market_cap < 500 THEN 1 ELSE 0) + (IF s.price < 5000 THEN 1 ELSE 0)
    + (IF s.surge > 20 THEN 1 ELSE 0)

\* variation: Medium up to two factors, High from three
v33_assess_risk_stated(risk_factors) ==
    IF risk_factors = 0 THEN "Low" ELSE IF risk_factors <= 2 THEN "Medium" ELSE "High"

v33_assess_risk(risk_factors) ==
    IF risk_factors = 0 THEN "Low" ELSE IF risk_factors = 1 THEN "Medium" ELSE "High"

v33_analyze_stock(id, s) ==
    IF s.raises \/ s.histlen < 30 \/ s.market_cap = 0 \/ s.tv < MIN_TRADING_VALUE
    THEN [Blank(id) EXCEPT !.tv = s.tv]
    ELSE LET rsi == v33_calculate_rsi(s)
             rsi_score == v33_calculate_rsi_score(rsi)
             disparity_score == v33_calculate_disparity_score(s.disparity)
             volume_score == v33_calculate_volume_score(s.volume_ratio)
             pbr_score == v33_calculate_pbr_score(s.pbr)
             total_score == rsi_score + disparity_score + volume_score + pbr_score
         IN  [id |-> id, scored |-> TRUE, returned |-> total_score >= 400,
              score |-> total_score,
              points |-> <<rsi_score, disparity_score, volume_score, pbr_score>>,
              tv |-> s.tv, rsi |-> rsi, disparity |-> s.disparity,
              volume_ratio |-> s.volume_ratio,
              pbr |-> IF s.pbr > 0 THEN s.pbr ELSE None,
              ret5 |-> s.ret5, rebound |-> s.rebound,
              risk_count |-> v33_risk_factors(s), risk_score |-> v33_risk_factors(s),
              risk_level |-> v33_assess_risk(v33_risk_factors(s))]

v33_select_recommendations(all_results) ==
    LET sorted_results == sorted_reverse(all_results, "score")
        top_30 == Take(sorted_results, TopN)
    IN  [admitted |-> sorted_results, top |-> top_30, boards |-> NoBoards,
         groups |->
            [NoGroups EXCEPT
                !.high_score = SelectSeq(top_30, LAMBDA r : r.score >= 700),
                !.medium_score =
                    SelectSeq(top_30, LAMBDA r : 600 <= r.score /\ r.score < 700),
                !.conservative =
                    SelectSeq(top_30, LAMBDA r : r.score < 600 /\ r.risk_level = "Low"),
                !.aggressive =
                    SelectSeq(top_30, LAMBDA r : r.score < 600 /\ r.risk_level # "Low")]]

(***************************************************************************)
(* stock_swing_trading_v3.3_complete.py (recommendation system v3.5)       *)
(***************************************************************************)
\* numpy: rsi = 100 when avg_loss == 0
v35_rsi(s) == IF s.loss = 0 THEN 100 ELSE (100 * s.gain) \div (s.gain + s.loss)

\* disparity = (close[-1] / ma20 - 1) * 100, in tenths of a percent
v35_disparity(s) == s.disparity - 1000

v35_rsi_points(rsi) ==
    IF 25 <= rsi /\ rsi <= 35 THEN 10 ELSE IF 20 <= rsi /\ rsi <= 40 THEN 7
    ELSE IF rsi < 45 THEN 3 ELSE 0

v35_disparity_points(disparity) ==
    IF 0 - 150 <= disparity /\ disparity <= 0 - 80 THEN 10
    ELSE IF 0 - 200 <= disparity /\ disparity <= 0 - 50 THEN 7
    ELSE IF disparity < 0 THEN 3 ELSE 0

v35_volume_points(vol_ratio) ==
    IF vol_ratio >= 250 THEN 10 ELSE IF vol_ratio >= 180 THEN 7
    ELSE IF vol_ratio >= 130 THEN 4 ELSE 0

v35_momentum_points(returns_5d, returns_20d, bounce_strength) ==
    IF returns_5d > 2 /\ 0 - 10 < returns_20d /\ returns_20d < 0 THEN 10
    ELSE IF returns_5d > 0 /\ returns_20d < 0 THEN 6
    ELSE IF bounce_strength > 5 THEN 4 ELSE 0

v35_calculate_technical_score(s) ==
    v35_rsi_points(v35_rsi(s)) + v35_disparity_points(v35_disparity(s))
    + v35_volume_points(s.volume_ratio)
    + v35_momentum_points(s.ret5, s.ret20, s.rebound)

\* info.get(key, 999): 999 stands for a missing fundamental; per and
\* debt_ratio are whole numbers, pbr is in hundredths
v35_per_points(per) ==
    IF per = None THEN 0
    ELSE IF 0 < per /\ per < 8 THEN 10 ELSE IF 0 < per /\ per < 12 THEN 7
    ELSE IF 0 < per /\ per < 15 THEN 4 ELSE 0

v35_pbr_points(pbr) ==
    IF pbr = None THEN 0
    ELSE IF 0 < pbr /\ pbr < 80 THEN 10 ELSE IF 0 < pbr /\ pbr < 120 THEN 7
    ELSE IF 0 < pbr /\ pbr < 150 THEN 4 ELSE 0

v35_debt_points(debt_ratio) ==
    IF debt_ratio = None THEN 0
    ELSE IF 0 <= debt_ratio /\ debt_ratio < 100 THEN 10
    ELSE IF debt_ratio < 150 THEN 6 ELSE IF debt_ratio < 200 THEN 3 ELSE 0

v35_calculate_fundamental_score(s) ==
    v35_per_points(s.per) + v35_pbr_points(s.pbr) + v35_debt_points(s.debt_ratio)

v35_position_points(current_pos) ==
    IF current_pos < 20 THEN 15 ELSE IF current_pos < 30 THEN 12
    ELSE IF current_pos < 40 THEN 8 ELSE 0

\* abs(ma5 - ma20) / ma20 < 0.02
v35_ma_points(s) ==
    IF s.prev_ma5 < s.prev_ma20 /\ s.ma5 > s.ma20 THEN 15
    ELSE IF s.ma5 > s.ma20 /\ s.ma20 > s.ma60 THEN 12
    ELSE IF s.ma5 < s.ma20 /\ 50 * (s.ma20 - s.ma5) < s.ma20 THEN 10
    ELSE IF s.ma5 > s.ma20 THEN 6 ELSE 0

v35_calculate_market_timing_score(s) ==
    v35_position_points(s.current_pos) + v35_ma_points(s)

\* details['거래량비율'] = f"{vol_ratio:.1f}배", read back with float(): the
\* ratio rounded to one decimal, kept in hundredths
v35_vol_ratio_detail(vol_ratio) == ((vol_ratio + 5) \div 10) * 10

v35_risk_score(s) ==
      (IF v35_rsi(s) < 25 \/ v35_rsi(s) > 75 THEN 1 ELSE 0)
    + (IF v35_vol_ratio_detail(s.volume_ratio) > 300 THEN 1 ELSE 0)
    + (IF s.debt_ratio # None /\ s.debt_ratio > 200 THEN 1 ELSE 0)

v35_determine_risk_level(risk_score) ==
    IF risk_score = 0 THEN "Low" ELSE IF risk_score = 1 THEN "Medium" ELSE "High"

v35_analyze_stock(id, s) ==
    IF s.raises \/ s.histlen < 60 \/ s.tv < 5 THEN [Blank(id) EXCEPT !.tv = s.tv]
    ELSE LET tech_score == v35_calculate_technical_score(s)
             fund_score == v35_calculate_fundamental_score(s)
             timing_score == v35_calculate_market_timing_score(s)
             total_score == tech_score + fund_score + timing_score
         IN  [id |-> id, scored |-> TRUE, returned |-> total_score >= 40,
              score |-> total_score,
              points |-> <<tech_score, fund_score, timing_score>>,
              tv |-> s.tv, rsi |-> v35_rsi(s), disparity |-> v35_disparity(s),
              volume_ratio |-> s.volume_ratio, pbr |-> s.pbr,
              ret5 |-> s.ret5, rebound |-> s.rebound,
              risk_count |-> v35_risk_score(s), risk_score |-> v35_risk_score(s),
              risk_level |-> v35_determine_risk_level(v35_risk_score(s))]

\* analyze_stock has no try block: once fetch_market_data and the liquidity
\* filter are passed, calculate_fundamental_score formats and compares the
\* values of info as numbers, and the TypeError or ValueError leaves
\* analyze_stock
v35_analyze_stock_raises(s) ==
    ~s.raises /\ s.histlen >= 60 /\ s.tv >= 5 /\ s.info_malformed

\* generate_html_report: top_30 and top_rsi are computed, then the key of
\* top_disparity reads `r`, a name bound only inside the comprehension, and
\* the NameError leaves main before any report is written
v35_generate_html_report(res) == NoOutput

(***************************************************************************)
(* stock_recommendation_complete.py                                        *)
(***************************************************************************)
complete_rsi_points(current_rsi) ==
    IF Leq(current_rsi, 30) THEN 30 ELSE IF Leq(current_rsi, 40) THEN 20
    ELSE IF Leq(current_rsi, 50) THEN 10 ELSE 0

complete_disparity_points(disparity) ==
    IF disparity <= 950 THEN 25 ELSE IF disparity <= 980 THEN 15
    ELSE IF disparity <= 1000 THEN 5 ELSE 0

complete_volume_points(volume_ratio) ==
    IF volume_ratio >= 150 THEN 25 ELSE IF volume_ratio >= 120 THEN 15
    ELSE IF volume_ratio >= 100 THEN 5 ELSE 0

complete_pbr_points(pbr) ==
    IF 0 < pbr /\ pbr <= 80 THEN 20 ELSE IF pbr <= 100 THEN 15
    ELSE IF pbr <= 150 THEN 10 ELSE 0

\* risk_factors: "극저PBR" (pbr < 0.5) and "소형주" (market cap below 1000억)
complete_risk_factors(s) ==
      (IF s.pbr < 50 THEN 1 ELSE 0)
    + (IF s.market_cap # None /\ s.market_cap < 1000 THEN 1 ELSE 0)

complete_risk_level(n) ==
    IF n >= 2 THEN "High" ELSE IF n = 1 THEN "Medium" ELSE "Low"

complete_calculate_technical_indicators(id, s) ==
    IF s.raises \/ s.histlen < 20 \/ s.fundamental_empty THEN Blank(id)
    ELSE LET current_rsi == rsi_pandas(s.gain, s.loss)
             score == complete_rsi_points(current_rsi)
                      + complete_disparity_points(s.disparity)
                      + complete_volume_points(s.volume_ratio)
                      + complete_pbr_points(s.pbr)
         IN  [id |-> id, scored |-> TRUE, returned |-> TRUE,
              score |-> score,
              points |-> <<complete_rsi_points(current_rsi),
                           complete_disparity_points(s.disparity),
                           complete_volume_points(s.volume_ratio),
                           complete_pbr_points(s.pbr)>>,
              tv |-> s.tv,
              rsi |-> current_rsi, disparity |-> s.disparity,
              volume_ratio |-> s.volume_ratio, pbr |-> s.pbr,
              ret5 |-> None, rebound |-> None,
              risk_count |-> complete_risk_factors(s),
              risk_score |-> complete_risk_factors(s),
              risk_level |-> complete_risk_level(complete_risk_factors(s))]

\* scan_all_stocks sorts what was collected; select_recommendations cuts it
complete_select_recommendations(res) ==
    LET df == sort_values_desc(res, "score")
    IN  [admitted |-> df, top |-> Take(df, TopN),
         boards |->
            [NoBoards EXCEPT !.rsi = nsmallest(df, LeaderK, "rsi"),
                             !.disparity = nsmallest(df, LeaderK, "disparity"),
                             !.volume = nlargest(df, LeaderK, "volume_ratio")],
         groups |-> NoGroups]

(***************************************************************************)
(* stock_recommendation_with_refresh.py                                    *)
(***************************************************************************)
\* get_pbr: the PBR when it is positive, else 999
refresh_get_pbr(s) == IF s.pbr # None /\ s.pbr > 0 THEN s.pbr ELSE 99900

refresh_rsi_points(rsi) ==
    IF Less(rsi, 30) THEN 30 ELSE IF Less(rsi, 40) THEN 20
    ELSE IF Less(rsi, 50) THEN 10 ELSE 0

refresh_disparity_points(disparity) ==
    IF disparity < 900 THEN 30 ELSE IF disparity < 950 THEN 20
    ELSE IF disparity < 1000 THEN 10 ELSE 0

refresh_volume_points(volume_ratio) ==
    IF volume_ratio > 200 THEN 25 ELSE IF volume_ratio > 150 THEN 15
    ELSE IF volume_ratio > 100 THEN 5 ELSE 0

refresh_pbr_points(pbr) ==
    IF pbr < 50 THEN 15 ELSE IF pbr < 100 THEN 10
    ELSE IF pbr < 150 THEN 5 ELSE 0

\* score = 0, then one `score +=` per indicator
refresh_score(rsi, disparity, volume_ratio, pbr) ==
    0 + refresh_rsi_points(rsi) + refresh_disparity_points(disparity)
    + refresh_volume_points(volume_ratio) + refresh_pbr_points(pbr)

\* calculate_risk_level: the terms added to risk_score (market_cap in 조)
refresh_risk_terms(s, pbr) ==
       (IF pbr > 250 THEN <<2>> ELSE IF pbr > 150 THEN <<1>>
        ELSE IF pbr < 50 THEN <<0 - 1>> ELSE <<>>)
    \o (IF s.market_cap < 1 THEN <<2>> ELSE IF s.market_cap < 10 THEN <<1>> ELSE <<>>)
    \o (IF s.volatile_sector THEN <<1>> ELSE <<>>)

refresh_risk_level(risk_score) ==
    IF risk_score >= 4 THEN "High" ELSE IF risk_score >= 2 THEN "Medium" ELSE "Low"

\* variation: the analysis does not look at the length of the history
refresh_analyze_stock_any_length(id, s) ==
    IF s.raises THEN Blank(id)
    ELSE LET rsi == rsi_pandas(s.gain, s.loss)
             pbr == refresh_get_pbr(s)
             terms == refresh_risk_terms(s, pbr)
         IN  [id |-> id, scored |-> TRUE, returned |-> TRUE,
              score |-> refresh_score(rsi, s.disparity, s.volume_ratio, pbr),
              points |-> <<refresh_rsi_points(rsi), refresh_disparity_points(s.disparity),
                           refresh_volume_points(s.volume_ratio), refresh_pbr_points(pbr)>>,
              tv |-> s.tv,
              rsi |-> rsi, disparity |-> s.disparity,
              volume_ratio |-> s.volume_ratio, pbr |-> pbr,
              ret5 |-> s.ret5, rebound |-> None,
              risk_count |-> Len(SelectSeq(terms, LAMBDA x : x > 0)),
              risk_score |-> SumSeq(terms),
              risk_level |-> refresh_risk_level(SumSeq(terms))]

refresh_analyze_stock(id, s) ==
    IF s.raises \/ s.histlen < 20 THEN Blank(id)
    ELSE LET rsi == rsi_pandas(s.gain, s.loss)
             pbr == refresh_get_pbr(s)
             score == refresh_score(rsi, s.disparity, s.volume_ratio, pbr)
             terms == refresh_risk_terms(s, pbr)
         IN  [id |-> id, scored |-> TRUE, returned |-> TRUE,
              score |-> score,
              points |-> <<refresh_rsi_points(rsi), refresh_disparity_points(s.disparity),
                           refresh_volume_points(s.volume_ratio), refresh_pbr_points(pbr)>>,
              tv |-> s.tv,
              rsi |-> rsi, disparity |-> s.disparity,
              volume_ratio |-> s.volume_ratio, pbr |-> pbr,
              ret5 |-> s.ret5, rebound |-> None,
              risk_count |-> Len(SelectSeq(terms, LAMBDA t : t > 0)),
              risk_score |-> SumSeq(terms),
              risk_level |-> refresh_risk_level(SumSeq(terms))]

\* scan_all_stocks sorts the results it kept (50 points and more) and keeps
\* the first 30; generate_html ranks within that frame
refresh_scan_all_stocks(res) ==
    LET kept == sort_values_desc(res, "score")
        results_df == Take(kept, TopN)
    IN  [admitted |-> kept, top |-> results_df,
         boards |->
            [NoBoards EXCEPT
                !.volume = nlargest(results_df, LeaderK, "volume_ratio"),
                !.pbr = nsmallest(SelectSeq(results_df, LAMBDA x : x.pbr < 1000),
                                  LeaderK, "pbr"),
                !.rsi = nsmallest(results_df, LeaderK, "rsi")],
         groups |-> NoGroups]

(***************************************************************************)
(* The market snapshot.  One input record per instrument holds what the    *)
(* data providers return for it, at the level of the indicator values:     *)
(*   raises            a provider call raises or times out                 *)
(*   histlen           rows of the price history                           *)
(*   gain, loss        14-period average gain and loss (gain None: the     *)
(*                     RSI computation raised)                             *)
(*   equity, net_income  sign of the figure, 0 when unavailable            *)
(*   info_malformed    a fundamental of the provider's info dictionary is  *)
(*                     None or text instead of a number                    *)
(* Base is an unremarkable instrument; the sets below vary it.             *)
(***************************************************************************)
\* the price bars of the last 20 periods, where an input gives them: the
\* latest close, the lowest and highest close and the lowest low; without
\* them the input gives the rebound strength itself
NoBars == [given |-> FALSE, close |-> 0, min_close |-> 0, max_close |-> 0, low |-> 0]

Base ==
    [raises |-> FALSE, histlen |-> 60, gain |-> 55, loss |-> 45,
     disparity |-> 1010, volume_ratio |-> 90, equity |-> 1, pbr |-> 250,
     net_income |-> 1, ret5 |-> 3, ret20 |-> 3, rebound |-> 0,
     volatility_range |-> 10, halted |-> FALSE, managed |-> FALSE, tv |-> 7,
     market_cap |-> 2000, price |-> 9000, surge |-> 5,
     per |-> None, debt_ratio |-> None, current_pos |-> 50,
     ma5 |-> 100, ma20 |-> 100, ma60 |-> 100, prev_ma5 |-> 100, prev_ma20 |-> 100,
     fundamental_empty |-> FALSE, volatile_sector |-> FALSE,
     info_malformed |-> FALSE, bars |-> NoBars]

Variants == {"swing", "v38", "v33", "v35", "complete", "refresh"}

\* model units per score point: the v3.3 scanner's scores are kept in tenths
ScoreUnit(v) == IF v = "v33" THEN 10 ELSE 1

\* an oversold, cheap, liquid instrument: the top bucket of every indicator
Strong ==
    [Base EXCEPT !.gain = 25, !.loss = 75, !.disparity = 900, !.volume_ratio = 160,
                 !.pbr = 40, !.ret5 = 0, !.rebound = 6]

SwingProfiles ==
    { Strong,
      \* the same indicators on a thin market
      [Strong EXCEPT !.tv = 1],
      \* trading halted: flat closes (no gain, no loss), no volume
      [Strong EXCEPT !.gain = 0, !.loss = 0, !.volume_ratio = 0, !.tv = 0,
                     !.halted = TRUE],
      \* no book value available, a loss-making company
      [Strong EXCEPT !.gain = 35, !.loss = 65, !.equity = 0, !.net_income = 0 - 1],
      \* most oversold of all, but a modest score
      [Base EXCEPT !.gain = 22, !.loss = 78, !.disparity = 990, !.volume_ratio = 100,
                   !.rebound = 6, !.volatility_range = 60, !.tv = 8],
      \* overheated: above the average, penalised
      [Strong EXCEPT !.disparity = 1210, !.tv = 9],
      \* nothing earns points
      Base,
      \* only 10 rows of history
      [Strong EXCEPT !.histlen = 10] }

V38Profiles ==
    { Strong,
      \* below the liquidity floor of 5억
      [Strong EXCEPT !.tv = 1],
      \* the same indicators, just on the floor
      [Strong EXCEPT !.tv = 5],
      \* flat closes: neither gain nor loss
      [Strong EXCEPT !.gain = 0, !.loss = 0],
      \* no priceToBook in the provider's info
      [Strong EXCEPT !.pbr = None, !.gain = 35, !.loss = 65, !.rebound = 90],
      \* most oversold of all, but a modest score
      [Base EXCEPT !.gain = 22, !.loss = 78, !.tv = 8],
      \* below 40 points
      Base,
      [Strong EXCEPT !.histlen = 10] }

\* market_cap in 억
V33Profiles ==
    { Strong,
      [Strong EXCEPT !.tv = 1],
      [Strong EXCEPT !.tv = 5],
      [Strong EXCEPT !.gain = 0, !.loss = 0],
      \* no PBR in the fundamentals table; a small cap below 5,000 won
      [Strong EXCEPT !.pbr = 0, !.market_cap = 300, !.price = 3000],
      \* one risk factor: a recent surge
      [Strong EXCEPT !.gain = 30, !.loss = 70, !.surge = 25, !.tv = 8],
      \* all three risk factors, a score below 60
      [Strong EXCEPT !.gain = 22, !.loss = 78, !.disparity = 1010,
                     !.market_cap = 300, !.price = 3000, !.surge = 25, !.tv = 9],
      \* a score below 60 without any risk factor
      [Strong EXCEPT !.gain = 50, !.loss = 50, !.disparity = 1010, !.tv = 6],
      Base,
      \* 25 rows: enough for the 20-period windows, not for the scanner
      [Strong EXCEPT !.histlen = 25] }

Strong35 ==
    [Strong EXCEPT !.gain = 30, !.loss = 70, !.volume_ratio = 260, !.ret5 = 3,
                   !.ret20 = 0 - 5, !.per = 5, !.debt_ratio = 50, !.current_pos = 10,
                   !.prev_ma5 = 99, !.ma5 = 101]

V35Profiles ==
    { Strong35,
      [Strong35 EXCEPT !.tv = 1],
      [Strong35 EXCEPT !.tv = 5],
      \* one risk factor: a volume surge
      [Strong35 EXCEPT !.volume_ratio = 310, !.tv = 8],
      \* two risk factors: extreme RSI and heavy debt
      [Strong35 EXCEPT !.gain = 22, !.loss = 78, !.debt_ratio = 250],
      \* three risk factors
      [Strong35 EXCEPT !.gain = 22, !.loss = 78, !.debt_ratio = 250,
                       !.volume_ratio = 310, !.tv = 9],
      \* no fundamentals at all
      [Strong35 EXCEPT !.per = None, !.pbr = None, !.debt_ratio = None],
      Base,
      [Strong35 EXCEPT !.histlen = 30] }

\* market_cap in 억, None when the market-cap frame is empty
CompleteProfiles ==
    { Strong,
      [Strong EXCEPT !.pbr = 60],
      [Strong EXCEPT !.market_cap = 500, !.tv = 8],
      [Strong EXCEPT !.market_cap = None],
      [Strong EXCEPT !.tv = 1],
      [Strong EXCEPT !.gain = 0, !.loss = 0],
      \* PBR reported as 0: no book value
      [Strong EXCEPT !.pbr = 0, !.gain = 22, !.loss = 78, !.disparity = 1010],
      Base,
      [Strong EXCEPT !.fundamental_empty = TRUE],
      [Strong EXCEPT !.histlen = 10] }

\* market_cap in 조
RefreshProfiles ==
    { Strong,
      [Strong EXCEPT !.market_cap = 0, !.volatile_sector = TRUE],
      [Strong EXCEPT !.pbr = None, !.market_cap = 5, !.volatile_sector = TRUE,
                     !.tv = 8],
      [Strong EXCEPT !.tv = 1],
      [Strong EXCEPT !.gain = 0, !.loss = 0],
      [Base EXCEPT !.gain = 22, !.loss = 78, !.disparity = 940, !.tv = 9],
      Base,
      [Strong EXCEPT !.histlen = 10] }

PipeInputs(v) ==
    CASE v = "swing" -> SwingProfiles
      [] v = "v38" -> V38Profiles
      [] v = "v33" -> V33Profiles
      [] v = "v35" -> V35Profiles
      [] v = "complete" -> CompleteProfiles
      [] v = "refresh" -> RefreshProfiles
      [] v = "exchange" -> CompleteProfiles

\* variation: a high total score lowers the tier
Locals_tier_by_total(v, id, s) ==
    LET r == CASE v = "swing" -> analyze_stock_worker_locals(id, s)
               [] v = "v38" -> v38_analyze_locals(id, s)
               [] v = "v33" -> v33_analyze_stock(id, s)
               [] v = "v35" -> v35_analyze_stock(id, s)
               [] v = "complete" -> complete_calculate_technical_indicators(id, s)
               [] v = "refresh" -> refresh_analyze_stock(id, s)
    IN  [r EXCEPT !.risk_level =
            IF r.returned /\ r.score >= 80 * ScoreUnit(v) THEN "Low" ELSE @]

\* variation: the position of the close in the band of the closes
worker_rebound_strength_in_band(b) ==
    IF b.max_close = b.min_close THEN 0
    ELSE ((b.close - b.min_close) * 100) \div (b.max_close - b.min_close)

\* stock_swing_trading.py: low_20d = df['Low'].iloc[-20:].min();
\* ((current_price - low_20d) / low_20d * 100) if low_20d > 0 else 0
worker_rebound_strength(b) ==
    IF b.low > 0 THEN ((b.close - b.low) * 100) \div b.low ELSE 0

\* v3.8 calculate_rebound_strength: 0 when max_price_20d == min_price_20d,
\* else (current_price - min) / (max - min) * 100 over the closes
v38_calculate_rebound_strength(b) ==
    IF b.max_close = b.min_close THEN 0
    ELSE ((b.close - b.min_close) * 100) \div (b.max_close - b.min_close)

\* v3.5: bounce_strength = (close[-1] / min_20d - 1) * 100
v35_bounce_strength(b) == ((b.close - b.min_close) * 100) \div b.min_close

\* the instrument with its rebound strength computed from the bars
Priced(v, s) ==
    IF ~s.bars.given THEN s
    ELSE CASE v = "swing" -> [s EXCEPT !.rebound = worker_rebound_strength(s.bars)]
           [] v = "v38" -> [s EXCEPT !.rebound = v38_calculate_rebound_strength(s.bars)]
           [] v = "v35" -> [s EXCEPT !.rebound = v35_bounce_strength(s.bars)]
           [] OTHER -> s

\* what the scan loop hands to analyse an instrument, and whether it keeps
\* the result in the result list
Locals(v, id, s) ==
    CASE v = "swing" -> analyze_stock_worker_locals(id, s)
      [] v = "v38" -> v38_analyze_locals(id, s)
      [] v = "v33" -> v33_analyze_stock(id, s)
      [] v = "v35" -> v35_analyze_stock(id, s)
      [] v = "complete" -> complete_calculate_technical_indicators(id, s)
      [] v = "refresh" -> refresh_analyze_stock(id, s)
      [] v = "exchange" -> complete_calculate_technical_indicators(id, s)

\* variation: the scan drops High-risk candidates
Collects_dropping_high_risk(v, r) ==
    CASE v = "swing" -> r.risk_level # "High"
      [] v = "refresh" -> r.returned /\ r.score >= 50 /\ r.risk_level # "High"
      [] OTHER -> r.returned /\ r.risk_level # "High"

(***************************************************************************)
(* stock_swing_trading.py: the cache file and the worker pool.  Every      *)
(* CacheManager() opens the same file financials.db; each call of          *)
(* analyze_stock_worker makes its own CacheManager and DARTFinancials.     *)
(* A row of financial_cache is kept per stock_code (PRIMARY KEY); `cached` *)
(* says a row younger than 30 days exists.  The stock code of an           *)
(* instrument is its index in the listing.                                 *)
(***************************************************************************)
NoRow == [cached |-> FALSE, equity |-> 0, net_income |-> 0]

EmptyDb == [financial_cache |-> <<>>, at_start |-> <<>>, exchange_cache |-> <<>>]

\* no call made yet: the last result of get_exchange_rates_only and of
\* get_financials, the external lookups the last call made, whether it stored
\* a row, and what the call that stored the row now cached had returned
NoRates == [usd |-> None, eur |-> None, jpy |-> None]
NoFin == [equity |-> None, net_income |-> None]
NoCalls ==
    [n |-> 0, last |-> "none", had_fresh |-> FALSE, hit |-> FALSE, lookups |-> 0,
     raised |-> FALSE, stored |-> FALSE, row |-> NoRates,
     rates |-> NoRates, rates_stored |-> NoRates, fin |-> NoFin, fin_stored |-> NoFin]

\* the clock (in ticks) and the times of the requests sent to DART
NoTraffic == [now |-> 0, requests |-> <<>>]

\* outside the pooled run of stock_swing_trading.py nothing is pooled or cached
Idle ==
    /\ pool = <<>>
    /\ financials_db = EmptyDb
    /\ calls = NoCalls
    /\ dart = NoTraffic

\* Python truth of a number or None
Truthy(x) == x # None /\ x # 0

\* `x or 0`
OrZero(x) == IF Truthy(x) THEN x ELSE 0

\* variation: every instrument is cached under one key
CacheKey_shared(code) == 1

\* WHERE stock_code = ? / INSERT OR REPLACE ... (stock_code, ...): the row
\* of an instrument is the row of its own code
CacheKey(code) == code

\* SELECT equity, net_income FROM financial_cache WHERE stock_code = ? AND
\* cached_at > ?: the row, or None
get_financial_cache(d, stock_code) ==
    LET row == d.financial_cache[CacheKey(stock_code)]
    IN  IF row.cached THEN [hit |-> TRUE, equity |-> row.equity, net_income |-> row.net_income]
        ELSE [hit |-> FALSE, equity |-> None, net_income |-> None]

\* INSERT OR REPLACE INTO financial_cache
set_financial_cache(d, stock_code, equity, net_income) ==
    [d EXCEPT !.financial_cache[CacheKey(stock_code)] =
        [cached |-> TRUE, equity |-> equity, net_income |-> net_income]]

\* what the DART request of get_financials yields for an instrument: the
\* figures of its statement, None for a figure the statement lacks
dart_request(s) ==
    [equity |-> IF s.equity = 0 THEN None ELSE s.equity,
     net_income |-> IF s.net_income = 0 THEN None ELSE s.net_income]

\* get_financials after a cache miss: the request, then
\* `if equity or net_income: set_financial_cache(code, equity or 0, net_income or 0)`
get_financials_store(d, stock_code, fin) ==
    IF Truthy(fin.equity) \/ Truthy(fin.net_income)
    THEN set_financial_cache(d, stock_code, OrZero(fin.equity), OrZero(fin.net_income))
    ELSE d

\* `if not equity or not net_income:` the worker asks yfinance, which
\* reports the statement's figures where it has them
worker_fallback(fin, s) ==
    IF Truthy(fin.equity) /\ Truthy(fin.net_income) THEN fin
    ELSE [equity |-> IF s.equity # 0 THEN s.equity ELSE fin.equity,
          net_income |-> IF s.net_income # 0 THEN s.net_income ELSE fin.net_income]

\* the candidate analyze_stock_worker computes from the financials it got
worker_candidate(id, s, fin) ==
    LET f == worker_fallback(fin, s)
    IN  analyze_stock_worker_locals(id,
            [s EXCEPT !.equity = OrZero(f.equity), !.net_income = OrZero(f.net_income)])

\* pool.map returns every result, None included; the loops of the other
\* variants keep what is not None; with_refresh keeps 50 points and more
Collects(v, r) ==
    CASE v = "swing" -> TRUE
      [] v = "refresh" -> r.returned /\ r.score >= 50
      [] OTHER -> r.returned

Init ==
    /\ variant \in Variants
    /\ universe \in [1..NumStocks -> PipeInputs(variant)]
    /\ all_stocks = [i \in 1..Len(universe) |-> i]
    /\ Idle
    /\ pc = "scan"
    /\ idx = 1
    /\ analyzed = <<>>
    /\ results = <<>>
    /\ out = NoOutput
    /\ run = 1
    /\ prev = NoRun

\* an exception leaves the per-instrument call of the scan loop: only the
\* loop of v3.5 calls code that can raise outside every try block
Propagates(v, s) == v = "v35" /\ v35_analyze_stock_raises(s)

\* one per-instrument analysis of the scan; an exception that reaches the
\* loop ends the run
Analyze(v) ==
    /\ variant = v
    /\ pc = "scan"
    /\ idx <= Len(universe)
    /\ IF Propagates(v, universe[all_stocks[idx]])
       THEN /\ pc' = "crashed"
            /\ UNCHANGED <<idx, analyzed, results>>
       ELSE /\ LET code == all_stocks[idx]
                   r == Locals(v, code, Priced(v, universe[code]))
               IN  /\ analyzed' = Append(analyzed, r)
                   /\ results' = IF Collects(v, r) THEN Append(results, r) ELSE results
            /\ idx' = idx + 1
            /\ pc' = IF idx = Len(universe) THEN "select" ELSE "scan"
    /\ UNCHANGED <<variant, universe, all_stocks, out, run, prev>>
    /\ UNCHANGED others

\* the aggregation step, once the scan is over
Select(v, result) ==
    /\ variant = v
    /\ pc = "select"
    /\ out' = result
    /\ pc' = "done"
    /\ UNCHANGED <<variant, universe, all_stocks, idx, analyzed, results, run, prev>>
    /\ UNCHANGED others

\* stock_swing_trading.py
analyze_stock_worker == Analyze("swing")
main == Select("swing", swing_main(results))

\* stock_swing_trading_v3.8.py
analyze_all_stocks == Analyze("v38")
generate_html == Select("v38", v38_generate_html(results))

\* tock_swing_trading_v3.3_complete.py
analyze_stock == Analyze("v33")
select_recommendations == Select("v33", v33_select_recommendations(results))

\* stock_swing_trading_v3.3_complete.py: main stops when nothing qualified,
\* otherwise generate_html_report raises
v35_analyze == Analyze("v35")
generate_html_report ==
    /\ variant = "v35"
    /\ pc = "select"
    /\ out' = v35_generate_html_report(results)
    /\ pc' = IF results = <<>> THEN "done" ELSE "crashed"
    /\ UNCHANGED <<variant, universe, all_stocks, idx, analyzed, results, run, prev>>
    /\ UNCHANGED others

\* stock_recommendation_complete.py
calculate_technical_indicators == Analyze("complete")
complete_select == Select("complete", complete_select_recommendations(results))

\* stock_recommendation_with_refresh.py
refresh_analyze == Analyze("refresh")
scan_all_stocks == Select("refresh", refresh_scan_all_stocks(results))

Next ==
    \/ analyze_stock_worker
    \/ main
    \/ analyze_all_stocks
    \/ generate_html
    \/ analyze_stock
    \/ select_recommendations
    \/ v35_analyze
    \/ generate_html_report
    \/ calculate_technical_indicators
    \/ complete_select
    \/ refresh_analyze
    \/ scan_all_stocks

Spec == Init /\ [][Next]_vars

(***************************************************************************)
(* The scoring and risk routines over their whole input space: a universe  *)
(* of one instrument whose indicator values range over one representative  *)
(* of every bucket of every scoring table, present or missing.             *)
(***************************************************************************)
\* (gain, loss) pairs: flat closes (0/0), then RSI 10 .. 80
RsiCases == {<<0, 0>>, <<10, 90>>, <<22, 78>>, <<30, 70>>, <<35, 65>>, <<45, 55>>,
             <<55, 45>>, <<80, 20>>}

SwingScoreInputs ==
    { [Base EXCEPT !.gain = g[1], !.loss = g[2], !.disparity = d, !.volume_ratio = vr,
                   !.pbr = p, !.equity = e, !.ret5 = r5, !.rebound = rb] :
        g \in {<<0, 0>>, <<22, 78>>, <<35, 65>>, <<45, 55>>, <<55, 45>>},
        d \in {900, 960, 990, 1010, 1210, 1600},
        vr \in {90, 100, 120, 150},
        p \in {0, 40, 120, 180, 250, 600},
        e \in {0, 1},
        r5 \in {0 - 8, 0, 3},
        rb \in {0, 3, 6} }

V38ScoreInputs ==
    { [Base EXCEPT !.gain = g[1], !.loss = g[2], !.disparity = d, !.volume_ratio = vr,
                   !.pbr = p, !.ret5 = r5, !.rebound = rb] :
        g \in {<<None, None>>, <<0, 0>>, <<22, 78>>, <<35, 65>>, <<45, 55>>,
               <<55, 45>>, <<80, 20>>},
        d \in {None, 900, 960, 1010, 1040, 1100},
        vr \in {None, 160, 100, 50},
        p \in {None, 0, 40, 120, 250},
        r5 \in {None, 12, 0, 0 - 8},
        rb \in {None, 90, 50, 0} }

V33ScoreInputs ==
    { [Base EXCEPT !.gain = g[1], !.loss = g[2], !.disparity = d, !.volume_ratio = vr,
                   !.pbr = p, !.market_cap = mc, !.price = pr, !.surge = su] :
        g \in RsiCases \ {<<80, 20>>},
        d \in {700, 850, 920, 980, 1010},
        vr \in {90, 130, 160, 350},
        p \in {0, 20, 40, 80, 120},
        mc \in {300, 2000},
        pr \in {3000, 9000},
        su \in {5, 25} }

V35ScoreInputs ==
    { [Base EXCEPT !.gain = g[1], !.loss = g[2], !.disparity = d, !.volume_ratio = vr,
                   !.ret5 = 3, !.ret20 = r20, !.per = pe, !.pbr = p, !.debt_ratio = db,
                   !.current_pos = cp, !.prev_ma5 = m[1], !.ma5 = m[2], !.ma60 = m[3]] :
        g \in {<<22, 78>>, <<30, 70>>, <<45, 55>>, <<80, 20>>},
        d \in {900, 970, 1010},
        vr \in {90, 200, 260, 310},
        r20 \in {0 - 5, 3},
        pe \in {None, 5},
        p \in {None, 40, 130},
        db \in {None, 50, 250},
        cp \in {10, 50},
        m \in {<<99, 101, 100>>, <<100, 100, 100>>, <<101, 101, 90>>} }

CompleteScoreInputs ==
    { [Base EXCEPT !.gain = g[1], !.loss = g[2], !.disparity = d, !.volume_ratio = vr,
                   !.pbr = p, !.market_cap = mc] :
        g \in RsiCases,
        d \in {900, 960, 990, 1010},
        vr \in {90, 100, 120, 150},
        p \in {0, 40, 60, 90, 120, 250},
        mc \in {None, 500, 2000} }

RefreshScoreInputs ==
    { [Base EXCEPT !.gain = g[1], !.loss = g[2], !.disparity = d, !.volume_ratio = vr,
                   !.pbr = p, !.market_cap = mc, !.volatile_sector = vs] :
        g \in RsiCases,
        d \in {850, 920, 980, 1010},
        vr \in {90, 120, 160, 210},
        p \in {None, 40, 80, 120, 200, 300},
        mc \in {0, 5, 20},
        vs \in BOOLEAN }

ScoreInputs(v) ==
    CASE v = "swing" -> SwingScoreInputs
      [] v = "v38" -> V38ScoreInputs
      [] v = "v33" -> V33ScoreInputs
      [] v = "v35" -> V35ScoreInputs
      [] v = "complete" -> CompleteScoreInputs
      [] v = "refresh" -> RefreshScoreInputs

InitScore ==
    /\ variant \in Variants
    /\ universe \in [1..1 -> ScoreInputs(variant)]
    /\ all_stocks = [i \in 1..Len(universe) |-> i]
    /\ Idle
    /\ pc = "scan"
    /\ idx = 1
    /\ analyzed = <<>>
    /\ results = <<>>
    /\ out = NoOutput
    /\ run = 1
    /\ prev = NoRun

SpecScore == InitScore /\ [][Next]_vars

(***************************************************************************)
(* Two runs of the same program.  The second run sees the same market      *)
(* except for inputs that only the risk assessment reads:                  *)
(*   stock_swing_trading.py      managed-issue flag, net income            *)
(*   tock_..._v3.3_complete.py   price level, 20-day surge                 *)
(*   ..._complete.py             market capitalisation                     *)
(*   ..._with_refresh.py         market capitalisation, sector             *)
(* v3.8 assigns no risk tier and v3.5 derives it from score inputs only,   *)
(* so their second run sees the same market.                               *)
(***************************************************************************)
\* the values the second run may see for the risk-only inputs
RiskOnlyChoices(v) ==
    CASE v = "swing" -> BOOLEAN \X {0 - 1, 1}
      [] v = "v33" -> {3000, 9000} \X {5, 25}
      [] v = "complete" -> {None, 500, 2000} \X {0}
      [] v = "refresh" -> {0, 20} \X BOOLEAN
      [] OTHER -> {<<0, 0>>}

WithRisk(v, s, c) ==
    CASE v = "swing" -> [s EXCEPT !.managed = c[1], !.net_income = c[2]]
      [] v = "v33" -> [s EXCEPT !.price = c[1], !.surge = c[2]]
      [] v = "complete" -> [s EXCEPT !.market_cap = c[1]]
      [] v = "refresh" -> [s EXCEPT !.market_cap = c[1], !.volatile_sector = c[2]]
      [] OTHER -> s

\* a strong instrument, a modest one that still passes every floor, and
\* (where the variant has a liquidity floor) the strong one on a thinner market
TwoRunInputs(v) ==
    CASE v = "swing" ->
            {Strong, [Strong EXCEPT !.tv = 1],
             [Base EXCEPT !.gain = 22, !.loss = 78, !.disparity = 990,
                          !.volume_ratio = 100, !.rebound = 6, !.tv = 8]}
      [] v = "v38" ->
            {Strong, [Strong EXCEPT !.tv = 5],
             [Base EXCEPT !.gain = 22, !.loss = 78, !.tv = 8]}
      [] v = "v33" ->
            {Strong, [Strong EXCEPT !.tv = 5],
             [Strong EXCEPT !.gain = 50, !.loss = 50, !.disparity = 1010, !.tv = 6]}
      [] v = "v35" ->
            {Strong35, [Strong35 EXCEPT !.tv = 5],
             [Strong35 EXCEPT !.gain = 22, !.loss = 78, !.debt_ratio = 250]}
      [] v = "complete" ->
            {Strong, [Strong EXCEPT !.tv = 1],
             [Strong EXCEPT !.pbr = 0, !.gain = 22, !.loss = 78, !.disparity = 1010]}
      [] v = "refresh" ->
            {Strong, [Strong EXCEPT !.tv = 1],
             [Base EXCEPT !.gain = 22, !.loss = 78, !.disparity = 940, !.tv = 9]}

InitTwoRuns ==
    /\ variant \in Variants
    /\ universe \in [1..NumStocks -> TwoRunInputs(variant)]
    /\ all_stocks = [i \in 1..Len(universe) |-> i]
    /\ Idle
    /\ pc = "scan"
    /\ idx = 1
    /\ analyzed = <<>>
    /\ results = <<>>
    /\ out = NoOutput
    /\ run = 1
    /\ prev = NoRun

\* the program is started again on the changed market and scans it in the
\* same order
Rerun ==
    /\ run = 1
    /\ pc \in {"done", "crashed"}
    /\ \E c \in [1..Len(universe) -> RiskOnlyChoices(variant)] :
          universe' = [i \in 1..Len(universe) |-> WithRisk(variant, universe[i], c[i])]
    /\ prev' = [analyzed |-> analyzed, out |-> out]
    /\ run' = 2
    /\ pc' = "scan"
    /\ idx' = 1
    /\ analyzed' = <<>>
    /\ results' = <<>>
    /\ out' = NoOutput
    /\ UNCHANGED <<variant, all_stocks>>
    /\ UNCHANGED others

NextTwoRuns == Next \/ Rerun

SpecTwoRuns == InitTwoRuns /\ [][NextTwoRuns]_vars

(***************************************************************************)
(* Two runs on one snapshot: the second run reads the same universe; the   *)
(* order in which it scans the instruments is what the program's ticker    *)
(* list gives.                                                             *)
(***************************************************************************)
\* get_all_stocks of with_refresh returns list(set(kospi + kosdaq)): the
\* iteration order of a set of strings depends on the hash seed of the
\* process, so each run may scan in any order; the other programs read the
\* listing in the order the provider gives it
ScanOrders(v, n) ==
    IF v = "refresh" THEN Permutations(1..n) ELSE {[i \in 1..n |-> i]}

RerunSameSnapshot ==
    /\ run = 1
    /\ pc \in {"done", "crashed"}
    /\ all_stocks' \in ScanOrders(variant, Len(universe))
    /\ prev' = [analyzed |-> analyzed, out |-> out]
    /\ run' = 2
    /\ pc' = "scan"
    /\ idx' = 1
    /\ analyzed' = <<>>
    /\ results' = <<>>
    /\ out' = NoOutput
    /\ UNCHANGED <<variant, universe>>
    /\ UNCHANGED others

NextSameSnapshot == Next \/ RerunSameSnapshot

SpecSameSnapshot == InitTwoRuns /\ [][NextSameSnapshot]_vars

(***************************************************************************)
(* Failures of single instruments: every instrument is a sound one, one    *)
(* with too short a history, one whose provider call raises, one without   *)
(* fundamentals, or one whose info dictionary is malformed.                *)
(***************************************************************************)
\* the rows of history each program asks for
MinRows(v) == CASE v = "v33" -> 30 [] v = "v35" -> 60 [] OTHER -> 20

Sound(v) == IF v = "v35" THEN Strong35 ELSE Strong

\* what each program gets when the PBR alone is unavailable: no equity figure
\* (stock_swing_trading.py), 0 from the fundamentals table (v3.3 scanner,
\* complete), no priceToBook or an exception (v3.8, v3.5, with_refresh)
NoPbr(v) ==
    CASE v = "swing" -> [Sound(v) EXCEPT !.equity = 0, !.tv = 6]
      [] v \in {"v33", "complete"} -> [Sound(v) EXCEPT !.pbr = 0, !.tv = 6]
      [] OTHER -> [Sound(v) EXCEPT !.pbr = None, !.tv = 6]

\* what each program gets when the instrument has no fundamentals at all
NoFundamentals(v) ==
    CASE v = "swing" -> [Sound(v) EXCEPT !.equity = 0, !.net_income = 0]
      [] v = "v33" -> [Sound(v) EXCEPT !.pbr = 0, !.market_cap = 0]
      [] v = "v35" ->
            [Sound(v) EXCEPT !.per = None, !.pbr = None, !.debt_ratio = None]
      [] v = "complete" -> [Sound(v) EXCEPT !.pbr = 0, !.fundamental_empty = TRUE]
      [] v = "refresh" -> [Sound(v) EXCEPT !.pbr = None, !.market_cap = 0]
      [] OTHER -> [Sound(v) EXCEPT !.pbr = None]

FaultInputs(v) ==
    { Sound(v),
      [Sound(v) EXCEPT !.histlen = 10],
      [Sound(v) EXCEPT !.histlen = MinRows(v) - 1],
      [Sound(v) EXCEPT !.histlen = MinRows(v), !.tv = 8],
      [Sound(v) EXCEPT !.raises = TRUE],
      NoPbr(v),
      NoFundamentals(v),
      [Sound(v) EXCEPT !.info_malformed = TRUE] }

InitFaults ==
    /\ variant \in Variants
    /\ universe \in [1..NumStocks -> FaultInputs(variant)]
    /\ all_stocks = [i \in 1..Len(universe) |-> i]
    /\ Idle
    /\ pc = "scan"
    /\ idx = 1
    /\ analyzed = <<>>
    /\ results = <<>>
    /\ out = NoOutput
    /\ run = 1
    /\ prev = NoRun

SpecFaults == InitFaults /\ [][Next]_vars

(***************************************************************************)
(* Bucket boundaries: one instrument whose RSI, disparity, volume ratio or *)
(* PBR sweeps the values on and next to the bucket edges.                  *)
(***************************************************************************)
Around(edges) == {x + e : x \in edges, e \in {0 - 1, 0, 1}}

BoundaryInputs(v) ==
    {[Sound(v) EXCEPT !.gain = g, !.loss = 100 - g] : g \in 15..50}
    \cup {[Sound(v) EXCEPT !.disparity = d] :
             d \in Around({800, 850, 900, 920, 950, 1000})}
    \cup {[Sound(v) EXCEPT !.volume_ratio = x] :
             x \in Around({120, 130, 150, 180, 250, 300})}
    \cup {[Sound(v) EXCEPT !.pbr = x] : x \in Around({0, 30, 70, 100})}

InitBuckets ==
    /\ variant \in Variants
    /\ universe \in {<<s>> : s \in BoundaryInputs(variant)}
    /\ all_stocks = [i \in 1..Len(universe) |-> i]
    /\ Idle
    /\ pc = "scan"
    /\ idx = 1
    /\ analyzed = <<>>
    /\ results = <<>>
    /\ out = NoOutput
    /\ run = 1
    /\ prev = NoRun

SpecBuckets == InitBuckets /\ [][Next]_vars

\* the buckets of a scoring function in the order the code tests them: the
\* range as the condition writes it, and the points of the bucket
Buckets(fn, x) ==
    CASE fn = "v33_rsi" ->
            << <<20 <= x /\ x <= 25, 300>>, <<25 < x /\ x <= 35, 201>>,
               <<35 < x /\ x <= 45, 99>> >>
      [] fn = "v33_disparity" ->
            << <<800 <= x /\ x <= 900, 250>>, <<900 < x /\ x <= 950, 200>>,
               <<950 < x /\ x <= 1000, 100>> >>
      [] fn = "v33_volume" ->
            << <<150 <= x /\ x <= 300, 250>>, <<120 <= x /\ x < 150, 200>>,
               <<x >= 300, 150>> >>
      [] fn = "v33_pbr" ->
            << <<x <= 0, 0>>, <<30 <= x /\ x <= 70, 200>>,
               <<70 < x /\ x <= 100, 150>>, <<0 < x /\ x < 30, 100>> >>
      [] fn = "v35_rsi" ->
            << <<25 <= x /\ x <= 35, 10>>, <<20 <= x /\ x <= 40, 7>>, <<x < 45, 3>> >>
      [] fn = "v35_disparity" ->
            << <<0 - 150 <= x /\ x <= 0 - 80, 10>>,
               <<0 - 200 <= x /\ x <= 0 - 50, 7>>, <<x < 0, 3>> >>
      [] fn = "v35_volume" ->
            << <<x >= 250, 10>>, <<x >= 180, 7>>, <<x >= 130, 4>> >>

\* the bucket tables an analysis went through, with the values it tested
Tables(v, r, s) ==
    CASE v = "v33" ->
            << Buckets("v33_rsi", r.rsi), Buckets("v33_disparity", r.disparity),
               Buckets("v33_volume", r.volume_ratio), Buckets("v33_pbr", s.pbr) >>
      [] v = "v35" ->
            << Buckets("v35_rsi", r.rsi), Buckets("v35_disparity", r.disparity),
               Buckets("v35_volume", r.volume_ratio) >>
      [] OTHER -> <<>>

(***************************************************************************)
(* Properties                                                              *)
(***************************************************************************)
\* the analyses that returned a candidate
Candidates == {i \in 1..Len(analyzed) : analyzed[i].returned}

SeqSet(q) == {q[i] : i \in 1..Len(q)}

Ids(q) == {q[i].id : i \in 1..Len(q)}

\* every instrument the report shows: Top-N, leaderboards, profile groups
Shown(o) ==
    SeqSet(o.top)
    \cup UNION {SeqSet(o.boards[b]) : b \in DOMAIN o.boards}
    \cup UNION {SeqSet(o.groups[g]) : g \in DOMAIN o.groups}

\* C1: for every combination of indicator values, present or missing, the
\* composite score of every scoring variant lies between 0 and 100 points.
ScoreWithinRange ==
    \A i \in 1..Len(analyzed) :
        analyzed[i].scored =>
            /\ 0 <= analyzed[i].score
            /\ analyzed[i].score <= 100 * ScoreUnit(variant)

\* C1 witness: the disparity penalty exceeds the points earned and the
\* score is floored at 0.
ScoreFlooredAtZero ==
    \E i \in 1..Len(analyzed) :
        /\ analyzed[i].scored
        /\ SumSeq(analyzed[i].points) > 0
        /\ analyzed[i].score = 0

\* C2 as stated: the reported total equals the exact sum of the per-indicator
\* points; nothing changes the total after the parts are summed.
TotalIsSumOfParts ==
    \A i \in 1..Len(analyzed) :
        analyzed[i].scored => analyzed[i].score = SumSeq(analyzed[i].points)

\* C2 amended: the reported total equals the sum of the per-indicator points,
\* except in analyze_stock_worker, where a disparity above 100% takes
\* int((disparity - 100) * 2) points off the sum, floored at 0.
TotalIsSumOfPartsLessPenalty ==
    \A i \in 1..Len(analyzed) :
        analyzed[i].scored =>
            analyzed[i].score =
                IF variant = "swing" /\ analyzed[i].disparity > 1000
                THEN Max(0, SumSeq(analyzed[i].points)
                            - (((analyzed[i].disparity - 1000) * 2) \div 10))
                ELSE SumSeq(analyzed[i].points)

\* C2 witness: a penalised instrument whose total is below the sum of its parts
PenaltyApplied ==
    \E i \in 1..Len(analyzed) :
        /\ variant = "swing"
        /\ analyzed[i].scored
        /\ analyzed[i].disparity > 1000
        /\ 0 < analyzed[i].score
        /\ analyzed[i].score < SumSeq(analyzed[i].points)

\* C3: Top-N is a subset of the admitted set with at most N entries, sorted
\* non-increasing by score, equal scores ordered by trading value descending.
TopNSortedWithTieBreak ==
    pc = "done" =>
        /\ Len(out.top) <= TopN
        /\ SeqSet(out.top) \subseteq SeqSet(out.admitted)
        /\ \A i, j \in 1..Len(out.top) :
              i < j =>
                /\ out.top[i].score >= out.top[j].score
                /\ out.top[i].score = out.top[j].score => out.top[i].tv >= out.top[j].tv

\* C4: no instrument whose trading value is below MIN_TRADING_VALUE appears
\* in Top-N, in a leaderboard or in a profile group.
NoIlliquidInOutput ==
    pc = "done" => \A x \in Shown(out) : x.tv >= MIN_TRADING_VALUE

\* C5 as stated: no instrument below the quality floor appears in Top-N, in
\* a leaderboard or in a profile group, whichever program runs (40 points is
\* the lowest floor the repository defines).
NoLowScoreInOutput ==
    pc = "done" => \A x \in Shown(out) : x.score >= 40 * ScoreUnit(variant)

\* the quality floor of the programs that have one
MinScore(v) ==
    CASE v = "swing" -> 50 [] v = "refresh" -> 50
      [] v = "v38" -> 40 [] v = "v35" -> 40 [] v = "v33" -> 400

\* C5 amended: in every program that defines a quality floor (all but
\* stock_recommendation_complete.py, which collects without filtering), no
\* instrument below the floor appears in Top-N, a leaderboard or a group.
NoLowScoreWhereFloorDefined ==
    (pc = "done" /\ variant # "complete") =>
        \A x \in Shown(out) : x.score >= MinScore(variant)

\* C5 witness: an instrument analysed below the floor is kept out of a
\* non-empty report
LowScoreRejected ==
    /\ pc = "done"
    /\ variant # "complete"
    /\ out.top # <<>>
    /\ \E i \in 1..Len(analyzed) :
          /\ analyzed[i].scored
          /\ analyzed[i].score < MinScore(variant)
          /\ analyzed[i].id \notin Ids(out.top)

\* C6 as stated: the risk tier is a function of the number of risk factors
\* that apply: two candidates with the same count get the same tier.
TierByFactorCount ==
    \A i, j \in Candidates :
        analyzed[i].risk_count = analyzed[j].risk_count
            => analyzed[i].risk_level = analyzed[j].risk_level

\* C6 amended: the risk tier is a deterministic function of the accumulated
\* risk score, independent of the total score; the risk score is the number
\* of factors only where every factor adds 1, and a weighted sum in
\* analyze_stock_worker and calculate_risk_level.
TierByRiskScore ==
    \A i, j \in Candidates :
        analyzed[i].risk_score = analyzed[j].risk_score
            => analyzed[i].risk_level = analyzed[j].risk_level

\* C6 witness: two candidates with different total scores and the same
\* positive risk score
SameRiskScoreDifferentTotals ==
    \E i, j \in Candidates :
        /\ analyzed[i].risk_score = analyzed[j].risk_score
        /\ analyzed[i].risk_score > 0
        /\ analyzed[i].score # analyzed[j].score

\* the programs whose risk score is the plain number of factors
CountBased == {"v33", "v35", "complete"}

\* C7 as stated: 0 risk factors give Low, 1 or 2 give Medium, 3 or more High.
TierThresholdsAsStated ==
    variant \in CountBased =>
        \A i \in Candidates :
            analyzed[i].risk_level =
                IF analyzed[i].risk_count = 0 THEN "Low"
                ELSE IF analyzed[i].risk_count <= 2 THEN "Medium" ELSE "High"

\* C7 amended: in the programs that count risk factors, 0 factors give Low,
\* exactly 1 gives Medium, 2 or more give High.
TierThresholdsOfCode ==
    variant \in CountBased =>
        \A i \in Candidates :
            analyzed[i].risk_level =
                IF analyzed[i].risk_count = 0 THEN "Low"
                ELSE IF analyzed[i].risk_count = 1 THEN "Medium" ELSE "High"

\* C7 witness: candidates with one, two and three risk factors in one scan
OneTwoThreeFactors ==
    /\ variant \in CountBased
    /\ \E i, j, k \in Candidates :
          /\ analyzed[i].risk_count = 1 /\ analyzed[i].risk_level = "Medium"
          /\ analyzed[j].risk_count = 2 /\ analyzed[j].risk_level = "High"
          /\ analyzed[k].risk_count = 3 /\ analyzed[k].risk_level = "High"

\* what the ranking of a run consists of
Scores(a) == [i \in 1..Len(a) |-> <<a[i].returned, a[i].score>>]
TopIds(o) == [i \in 1..Len(o.top) |-> o.top[i].id]

\* C8: two runs over universes that differ only in the risk factors of the
\* instruments produce the same scores and the same Top-N, in the same order.
RiskDoesNotInfluenceRanking ==
    (run = 2 /\ pc \in {"done", "crashed"}) =>
        /\ Scores(analyzed) = Scores(prev.analyzed)
        /\ TopIds(out) = TopIds(prev.out)

\* C8 witness: the second run ends with a full Top-N cut from a larger
\* admitted set, in which a member's tier differs from the first run
TierChangedInTopN ==
    /\ run = 2
    /\ pc = "done"
    /\ Len(out.top) = TopN
    /\ Len(out.admitted) > TopN
    /\ \E i \in 1..Len(out.top) :
          out.top[i].risk_level # prev.out.top[i].risk_level

\* the leaderboards a program computes
Boards(v) ==
    CASE v = "swing" -> {"rsi", "disparity", "volume", "rebound", "pbr"}
      [] v = "v38" -> {"rsi", "disparity", "volume", "pbr", "ret5", "rebound"}
      [] v = "complete" -> {"rsi", "disparity", "volume"}
      [] v = "refresh" -> {"volume", "pbr", "rsi"}
      [] OTHER -> {}

\* the instrument has no value for the indicator of leaderboard b (with_refresh
\* stores 999 for a PBR it could not get; 0.0 is no PBR either)
Missing(v, b, x) ==
    \/ x[BoardField(b)] \in {None, NaN}
    \/ b = "pbr" /\ x.pbr = 0
    \/ v = "refresh" /\ b = "pbr" /\ x.pbr >= 1000

\* a is a better value than c on leaderboard b
Better(b, a, c) == IF b \in {"volume", "ret5", "rebound"} THEN a > c ELSE a < c

\* fewer than LeaderK other instruments of adm are at least as good as x
AmongBest(v, b, x, adm) ==
    Cardinality({j \in 1..Len(adm) :
        /\ adm[j].id # x.id
        /\ ~Missing(v, b, adm[j])
        /\ ~Better(b, x[BoardField(b)], adm[j][BoardField(b)])}) < LeaderK

\* C9: each leaderboard is computed from the whole admitted set: an admitted
\* instrument whose indicator value is among the K best of the admitted set
\* is on the leaderboard, whatever its rank by score.
LeaderboardsFromAdmittedSet ==
    pc = "done" =>
        \A b \in Boards(variant) :
            \A j \in 1..Len(out.admitted) :
                (~Missing(variant, b, out.admitted[j])
                 /\ AmongBest(variant, b, out.admitted[j], out.admitted))
                    => InSeq(out.admitted[j], out.boards[b])

\* C10: a leaderboard never contains an instrument whose value for its
\* indicator is undefined or missing.
NoMissingValueOnLeaderboard ==
    pc = "done" =>
        \A b \in Boards(variant) :
            \A i \in 1..Len(out.boards[b]) : ~Missing(variant, b, out.boards[b][i])

\* C11: each leaderboard lists its instruments best value first, and no
\* admitted instrument outside a leaderboard has a strictly better value for
\* the indicator than an instrument on it.
LeaderboardsBestFirst ==
    pc = "done" =>
        \A b \in Boards(variant) :
            LET board == out.boards[b]
                f == BoardField(b)
            IN  /\ \A i, j \in 1..Len(board) :
                      (i < j /\ ~Missing(variant, b, board[i])
                             /\ ~Missing(variant, b, board[j]))
                          => ~Better(b, board[j][f], board[i][f])
                /\ \A i \in 1..Len(board) : \A j \in 1..Len(out.admitted) :
                      (/\ out.admitted[j].id \notin Ids(board)
                       /\ ~Missing(variant, b, out.admitted[j])
                       /\ ~Missing(variant, b, board[i]))
                          => ~Better(b, out.admitted[j][f], board[i][f])

\* the profile groups a program fills from a risk partition
RiskGroups(v) ==
    CASE v = "swing" -> {"balanced", "conservative"}
      [] v = "v33" -> {"conservative", "aggressive"}
      [] OTHER -> {}

\* x belongs to the risk partition group g is filled from
InPartition(v, g, x) ==
    CASE v = "swing" /\ g = "balanced" -> 30 <= x.risk_score /\ x.risk_score < 70
      [] v = "swing" /\ g = "conservative" -> x.risk_score < 30
      [] v = "v33" /\ g = "conservative" -> x.score < 600 /\ x.risk_level = "Low"
      [] v = "v33" /\ g = "aggressive" -> x.score < 600 /\ x.risk_level # "Low"
      [] OTHER -> FALSE

\* fewer than GroupM other members of g's partition in adm score as much as x
AmongFirstOfPartition(v, g, x, adm) ==
    Cardinality({j \in 1..Len(adm) :
        /\ adm[j].id # x.id
        /\ InPartition(v, g, adm[j])
        /\ adm[j].score >= x.score}) < GroupM

\* C12: profile groups are computed from the admitted set, not from Top-N: an
\* admitted instrument that belongs to a group's risk partition and ranks
\* within the first M of it by score is in that group, in Top-N or not.
GroupsFromAdmittedSet ==
    pc = "done" =>
        \A g \in RiskGroups(variant) :
            \A j \in 1..Len(out.admitted) :
                (InPartition(variant, g, out.admitted[j])
                 /\ AmongFirstOfPartition(variant, g, out.admitted[j], out.admitted))
                    => InSeq(out.admitted[j], out.groups[g])

\* C13: the final list of every profile group, backfill included, holds each
\* instrument at most once.
NoDuplicateInGroup ==
    pc = "done" =>
        \A g \in DOMAIN out.groups :
            \A i, j \in 1..Len(out.groups[g]) :
                i # j => out.groups[g][i].id # out.groups[g][j].id

\* C13 witness: the balanced group of stock_swing_trading.py holds a member
\* of its own partition and a backfilled low-risk instrument
BalancedGroupBackfilled ==
    /\ variant = "swing"
    /\ pc = "done"
    /\ Len(out.groups.balanced) = GroupM
    /\ \E i, j \in 1..Len(out.groups.balanced) :
          /\ i < j
          /\ InPartition("swing", "balanced", out.groups.balanced[i])
          /\ out.groups.balanced[j].risk_score < 30

\* x belongs to the tier next to the partition of group g, the one the
\* comments of the backfill name: low risk (below 30) for balanced, medium
\* risk (30-69) for conservative
InNextTier(g, x) ==
    CASE g = "balanced" -> x.risk_score < 30
      [] g = "conservative" -> 30 <= x.risk_score /\ x.risk_score < 70
      [] OTHER -> FALSE

\* C14: a group whose risk partition has fewer than M members is backfilled
\* from the next-closest risk tier: it ends with fewer than M members only
\* if no admitted instrument of its partition or of that tier is left to add.
GroupFullOrPoolExhausted ==
    (variant = "swing" /\ pc = "done") =>
        \A g \in RiskGroups("swing") :
            Len(out.groups[g]) < GroupM =>
                \A j \in 1..Len(out.admitted) :
                    (InPartition("swing", g, out.admitted[j])
                     \/ InNextTier(g, out.admitted[j]))
                        => InSeq(out.admitted[j], out.groups[g])

\* the programs whose profile groups are cut to M members
CutsGroups(v) == v \in {"swing", "v38"}

\* the members of group g that come from its own risk partition
OwnMembers(v, g, q) == SelectSeq(q, LAMBDA x : InPartition(v, g, x))

\* q lists its instruments in descending order of total score
ScoreDescending(q) == \A i, j \in 1..Len(q) : i < j => q[i].score >= q[j].score

\* no instrument of adm that qualifies for q and is not in it scores more
\* than a member of q
HighestScoring(q, adm, qualifies(_)) ==
    \A j \in 1..Len(adm) :
        (qualifies(adm[j]) /\ adm[j].id \notin Ids(q))
            => \A i \in 1..Len(q) : adm[j].score <= q[i].score

\* the indicator the groups of v3.8 are cut by
GroupBoard(g) == IF g = "conservative" THEN "rsi" ELSE "rebound"

\* C15 as stated: every profile group holds at most M instruments, and its
\* members from its own risk partition (all members, in v3.8, which knows no
\* risk tiers) are the highest-scoring ones, in descending order of score.
GroupsCutAndRankedByScore ==
    (pc = "done" /\ CutsGroups(variant)) =>
        /\ \A g \in DOMAIN out.groups : Len(out.groups[g]) <= GroupM
        /\ \A g \in RiskGroups(variant) :
              LET own == OwnMembers(variant, g, out.groups[g])
              IN  /\ ScoreDescending(own)
                  /\ HighestScoring(own, out.admitted,
                                    LAMBDA x : InPartition(variant, g, x))
        /\ variant = "v38" =>
              \A g \in {"conservative", "aggressive"} :
                  /\ ScoreDescending(out.groups[g])
                  /\ HighestScoring(out.groups[g], out.admitted, LAMBDA x : TRUE)

\* C15 amended: every profile group of stock_swing_trading.py and v3.8 holds
\* at most M instruments; in stock_swing_trading.py the members from the
\* group's own risk partition are the highest-scoring ones of the partition,
\* in descending order of score; in v3.8 conservative lists the lowest-RSI
\* and aggressive the highest-rebound admitted instruments, best value first.
GroupsCutAndRankedAsCoded ==
    (pc = "done" /\ CutsGroups(variant)) =>
        /\ \A g \in DOMAIN out.groups : Len(out.groups[g]) <= GroupM
        /\ \A g \in RiskGroups(variant) :
              LET own == OwnMembers(variant, g, out.groups[g])
              IN  /\ ScoreDescending(own)
                  /\ HighestScoring(own, out.admitted,
                                    LAMBDA x : InPartition(variant, g, x))
        /\ variant = "v38" =>
              \A g \in {"conservative", "aggressive"} :
                  LET q == out.groups[g]
                      b == GroupBoard(g)
                      f == BoardField(b)
                  IN  /\ \A i, j \in 1..Len(q) :
                            (i < j /\ ~Missing("v38", b, q[j]))
                                => /\ ~Missing("v38", b, q[i])
                                   /\ ~Better(b, q[j][f], q[i][f])
                      /\ \A i \in 1..Len(q) : \A j \in 1..Len(out.admitted) :
                            (/\ out.admitted[j].id \notin Ids(q)
                             /\ ~Missing("v38", b, out.admitted[j]))
                                => /\ ~Missing("v38", b, q[i])
                                   /\ ~Better(b, out.admitted[j][f], q[i][f])

\* C15 witness: the conservative group of v3.8 is full and lists a lower
\* score before a higher one
V38GroupAgainstScoreOrder ==
    /\ variant = "v38"
    /\ pc = "done"
    /\ Len(out.groups.conservative) = GroupM
    /\ Len(out.admitted) > GroupM
    /\ \E i, j \in 1..Len(out.groups.conservative) :
          i < j /\ out.groups.conservative[i].score < out.groups.conservative[j].score

\* C16: an instrument whose price history is shorter than the rows its
\* program asks for yields no result: it is not scored, and it is neither in
\* the admitted set nor anywhere in the report, whatever its fundamentals.
ShortHistoryNeverAdmitted ==
    \A i \in 1..Len(analyzed) :
        universe[i].histlen < MinRows(variant) =>
            /\ ~analyzed[i].scored
            /\ ~analyzed[i].returned
            /\ i \notin Ids(out.admitted)
            /\ \A x \in Shown(out) : x.id # i

\* C16 witness: a run ends with an admitted set, and an instrument with 10
\* rows of history and a PBR of 0.40 was skipped unscored
ShortHistorySkipped ==
    /\ pc = "done"
    /\ Len(out.admitted) > 0
    /\ \E i \in 1..Len(analyzed) :
          /\ universe[i].histlen = 10
          /\ universe[i].pbr = 40
          /\ ~analyzed[i].scored

\* the instrument has no PBR, or no fundamentals at all, in the form its
\* program meets that
AbsentFundamentals(v, s) ==
    \/ s.fundamental_empty
    \/ v = "swing" /\ s.equity <= 0
    \/ v \in {"v33", "complete"} /\ s.pbr = 0
    \/ v \in {"v38", "v35", "refresh"} /\ s.pbr = None

\* nothing else is wrong with the instrument
OtherwiseSound(v, s) ==
    /\ ~s.raises
    /\ ~s.info_malformed
    /\ s.histlen >= MinRows(v)
    /\ s.tv >= MIN_TRADING_VALUE

\* the points the analysis gave for the PBR
PbrPoints(v, r) == IF v = "v35" THEN v35_pbr_points(r.pbr) ELSE r.points[4]

\* C17: an instrument whose PBR, or whose fundamentals altogether, are
\* unavailable is still scored, and its PBR points are exactly zero.
AbsentFundamentalsScoreZero ==
    \A i \in 1..Len(analyzed) :
        (AbsentFundamentals(variant, universe[i])
         /\ OtherwiseSound(variant, universe[i]))
            => /\ analyzed[i].scored
               /\ PbrPoints(variant, analyzed[i]) = 0

\* the buckets of table b whose range holds the value
Hits(b) == {k \in 1..Len(b) : b[k][1]}

\* the points of the first bucket of b whose range holds the value
FirstHitPoints(b) ==
    IF Hits(b) = {} THEN 0
    ELSE b[CHOOSE k \in Hits(b) : \A m \in Hits(b) : k <= m][2]

\* C18 as stated: the bucket ranges of a scoring function do not overlap:
\* no indicator value, on a bucket boundary or off it, satisfies the range
\* of more than one bucket.
BucketRangesDisjoint ==
    \A i \in 1..Len(analyzed) :
        analyzed[i].scored =>
            LET tb == Tables(variant, analyzed[i], universe[i])
            IN  \A k \in 1..Len(tb) : Cardinality(Hits(tb[k])) <= 1

\* C18 amended: the buckets are tested in a fixed order and the first whose
\* range holds the value gives the points, so every value earns the points
\* of exactly one bucket (or none), also where the ranges overlap.
FirstMatchingBucketWins ==
    \A i \in 1..Len(analyzed) :
        analyzed[i].scored =>
            LET r == analyzed[i]
                s == universe[i]
                tb == Tables(variant, r, s)
            IN  /\ variant = "v33" =>
                      \A k \in 1..Len(tb) : r.points[k] = FirstHitPoints(tb[k])
                /\ variant = "v35" =>
                      r.points[1] =
                          FirstHitPoints(tb[1]) + FirstHitPoints(tb[2])
                          + FirstHitPoints(tb[3])
                          + v35_momentum_points(s.ret5, s.ret20, s.rebound)

\* C18 witness: the v3.3 scanner scored a volume ratio of exactly 300, which
\* is inside the 150-300 range and inside the 300-and-more range, with the
\* 25 points of the first
VolumeOnSharedBoundary ==
    /\ variant = "v33"
    /\ Len(analyzed) = 1
    /\ analyzed[1].scored
    /\ analyzed[1].volume_ratio = 300
    /\ Cardinality(Hits(Buckets("v33_volume", 300))) = 2
    /\ analyzed[1].points[3] = 250

\* C19: a second run on the identical snapshot yields the identical
\* selection result: the same admitted set, Top-N, leaderboards and groups,
\* each with the same members in the same order.
SecondRunIdentical ==
    (run = 2 /\ pc \in {"done", "crashed"}) => out = prev.out

\* C20: a failure in the processing of one instrument does not reach the
\* aggregation step: when the scan is over every instrument of the universe
\* has been processed, and an instrument whose provider call raised or timed
\* out is dropped.
FailureDoesNotPropagate ==
    pc # "scan" =>
        /\ Len(analyzed) = Len(universe)
        /\ \A i \in 1..Len(analyzed) :
              universe[i].raises =>
                  /\ ~analyzed[i].returned
                  /\ i \notin Ids(out.admitted)

(***************************************************************************)
(* stock_swing_trading.py, main: the pooled scan.                          *)
(*   with Pool(processes=4) as pool:                                       *)
(*       results = pool.map(analyze_stock_worker, args_list)               *)
(* A task is "queued", then runs on one of the pool's processes            *)
(* ("running": history loaded, indicators computed; "requesting": the      *)
(* cache had no row and the DART request is under way; "computing": the    *)
(* financials are there), then is "done".  reads and writes are the rows   *)
(* of financial_cache the task has read and written.                       *)
(***************************************************************************)
\* processes of the pool (4 in the code)
Processes == 2

PoolProfiles ==
    { Strong,
      \* no book value in the statement, a loss-making company
      [Strong EXCEPT !.gain = 35, !.loss = 65, !.equity = 0, !.net_income = 0 - 1],
      \* only 10 rows of history: the worker returns None before it opens the cache
      [Strong EXCEPT !.histlen = 10] }

\* what an earlier run may have left in financial_cache for a code
CachedRows ==
    { NoRow,
      [cached |-> TRUE, equity |-> 0 - 1, net_income |-> 1] }

\* requests a DARTFinancials object lets through before it sleeps (90 in the
\* code), and the length of its window in ticks of the clock (60 seconds)
RateLimit == 2
Window == 2

\* DARTFinancials.__init__: request_count = 0, last_request_time = time.time()
NewLimiter(now) == [request_count |-> 0, last_request_time |-> now, wake |-> now]

\* rate_limit: counts the request; at the 90th it sleeps out the rest of the
\* minute that began at last_request_time and starts a new count.  wake is
\* the time at which the call returns
rate_limit(lim, now) ==
    IF lim.request_count + 1 >= RateLimit
    THEN LET woken == Max(now, lim.last_request_time + Window)
         IN  [request_count |-> 0, last_request_time |-> woken, wake |-> woken]
    ELSE [request_count |-> lim.request_count + 1,
          last_request_time |-> lim.last_request_time, wake |-> now]

NewTask(i) ==
    [state |-> "queued", fin |-> [equity |-> None, net_income |-> None],
     result |-> Blank(i), reads |-> {}, writes |-> {}, limiter |-> NewLimiter(0)]

InitPool ==
    /\ variant = "swing"
    /\ universe \in [1..NumStocks -> PoolProfiles]
    /\ all_stocks = [i \in 1..Len(universe) |-> i]
    /\ pc = "scan"
    /\ idx = 1
    /\ analyzed = <<>>
    /\ results = <<>>
    /\ out = NoOutput
    /\ run = 1
    /\ prev = NoRun
    /\ pool = [i \in 1..Len(universe) |-> NewTask(i)]
    /\ \E rows \in [1..Len(universe) -> CachedRows] :
          financials_db = [financial_cache |-> rows, at_start |-> rows,
                           exchange_cache |-> <<>>]
    /\ calls = NoCalls
    /\ dart = NoTraffic

Busy(p) == {i \in DOMAIN p : p[i].state \in {"running", "requesting", "computing"}}

\* a free process of the pool takes the next task of the queue
pool_dispatch(i) ==
    /\ variant = "swing"
    /\ pc = "scan"
    /\ pool[i].state = "queued"
    /\ \A j \in 1..(i - 1) : pool[j].state # "queued"
    /\ Cardinality(Busy(pool)) < Processes
    /\ pool' = [pool EXCEPT ![i].state = "running"]
    /\ UNCHANGED <<variant, universe, all_stocks, pc, idx, analyzed, results, out,
                   run, prev, financials_db, calls, dart>>

\* analyze_stock_worker up to `cached = self.cache.get_financial_cache(code)`:
\* no history, or an exception, returns None; a cached row is returned as it
\* is; without one the worker's own, new DARTFinancials object passes
\* rate_limit before it sends the request
worker_get_financial_cache(i) ==
    /\ pool[i].state = "running"
    /\ LET s == universe[i]
           cached == get_financial_cache(financials_db, i)
       IN  pool' = IF s.raises \/ s.histlen < 20
                   THEN [pool EXCEPT ![i].state = "done", ![i].result = Blank(i)]
                   ELSE IF cached.hit
                   THEN [pool EXCEPT ![i].state = "computing",
                                     ![i].fin = [equity |-> cached.equity,
                                                 net_income |-> cached.net_income],
                                     ![i].reads = @ \cup {CacheKey(i)}]
                   ELSE [pool EXCEPT ![i].state = "requesting",
                                     ![i].reads = @ \cup {CacheKey(i)},
                                     ![i].limiter =
                                         rate_limit(NewLimiter(dart.now), dart.now)]
    /\ UNCHANGED <<variant, universe, all_stocks, pc, idx, analyzed, results, out,
                   run, prev, financials_db, calls, dart>>

\* the rest of get_financials: the request and the write of the row
worker_get_financials(i) ==
    /\ pool[i].state = "requesting"
    /\ dart.now >= pool[i].limiter.wake
    /\ dart' = [dart EXCEPT !.requests = Append(@, dart.now)]
    /\ LET fin == dart_request(universe[i])
           stored == get_financials_store(financials_db, i, fin)
       IN  /\ financials_db' = stored
           /\ pool' = [pool EXCEPT ![i].state = "computing", ![i].fin = fin,
                                   ![i].writes = IF stored = financials_db THEN @
                                                 ELSE @ \cup {CacheKey(i)}]
    /\ UNCHANGED <<variant, universe, all_stocks, pc, idx, analyzed, results, out,
                   run, prev, calls>>

\* the worker returns its candidate
worker_return(i) ==
    /\ pool[i].state = "computing"
    /\ pool' = [pool EXCEPT ![i].state = "done",
                            ![i].result = worker_candidate(i, universe[i], pool[i].fin)]
    /\ UNCHANGED <<variant, universe, all_stocks, pc, idx, analyzed, results, out,
                   run, prev, financials_db, calls, dart>>

\* variation: map returns with the first result that is in
map_complete_on_first_result(p) == \E i \in DOMAIN p : p[i].state = "done"

\* Pool.map blocks until the result of every task is in
map_complete(p) == \A i \in DOMAIN p : p[i].state = "done"

\* results = pool.map(...): the results in the order of args_list
pool_map ==
    /\ variant = "swing"
    /\ pc = "scan"
    /\ pool # <<>>
    /\ map_complete(pool)
    /\ results' = [i \in DOMAIN pool |-> pool[i].result]
    /\ analyzed' = [i \in DOMAIN pool |-> pool[i].result]
    /\ idx' = Len(universe) + 1
    /\ pc' = "select"
    /\ UNCHANGED <<variant, universe, all_stocks, out, run, prev, pool, financials_db,
                   calls, dart>>

NextPool ==
    \/ \E i \in DOMAIN pool : pool_dispatch(i)
    \/ \E i \in DOMAIN pool : worker_get_financial_cache(i)
    \/ \E i \in DOMAIN pool : worker_get_financials(i)
    \/ \E i \in DOMAIN pool : worker_return(i)
    \/ pool_map
    \/ main

SpecPool == InitPool /\ [][NextPool]_vars

\* C21: when the aggregation step of main reads the result list, every task
\* of the pool is done (no worker is still running, none is still queued)
\* and the list holds the result of every instrument, in the order of the
\* listing
SelectionAfterEveryResult ==
    (pool # <<>> /\ pc \in {"select", "done"}) =>
        /\ \A i \in DOMAIN pool : pool[i].state = "done"
        /\ Len(results) = Len(universe)
        /\ \A i \in DOMAIN pool : results[i] = pool[i].result

\* the selection ran on a pooled scan that gave candidates and None results
PooledRunSelected ==
    /\ pool # <<>>
    /\ pc = "done"
    /\ out.top # <<>>
    /\ \E i \in DOMAIN results : ~results[i].returned

\* what analyze_stock_worker returns for instrument i when it is the only
\* task that runs on the cache as the run found it
AloneResult(i) ==
    LET s == universe[i]
        atStart == [financials_db EXCEPT !.financial_cache = financials_db.at_start]
        cached == get_financial_cache(atStart, i)
    IN  IF s.raises \/ s.histlen < 20 THEN Blank(i)
        ELSE IF cached.hit
        THEN worker_candidate(i, s, [equity |-> cached.equity,
                                     net_income |-> cached.net_income])
        ELSE worker_candidate(i, s, dart_request(s))

RsiZeroLossIsHundred ==
    variant \in {"v33", "v35", "v38"} =>
        \A i \in DOMAIN analyzed :
            analyzed[i].scored =>
                /\ analyzed[i].rsi # NaN
                /\ universe[analyzed[i].id].loss = 0 => analyzed[i].rsi = 100

(***************************************************************************)
(* Rebound strength from price bars: the programs that compute it, on      *)
(* instruments whose last 20 bars are given.                               *)
(***************************************************************************)
\* bars of 20 periods: low <= min_close <= close <= max_close, prices > 0
BarInputs ==
    { b \in [given : {TRUE}, close : {100, 104, 300}, min_close : {100},
             max_close : {100, 300}, low : {50, 100}] :
        b.low <= b.min_close /\ b.min_close <= b.close /\ b.close <= b.max_close }

InitRebound ==
    /\ variant \in {"swing", "v38", "v35"}
    /\ universe \in [1..NumStocks -> {[Sound(variant) EXCEPT !.bars = b] : b \in BarInputs}]
    /\ all_stocks = [i \in 1..Len(universe) |-> i]
    /\ Idle
    /\ pc = "scan"
    /\ idx = 1
    /\ analyzed = <<>>
    /\ results = <<>>
    /\ out = NoOutput
    /\ run = 1
    /\ prev = NoRun

NextRebound ==
    \/ analyze_stock_worker
    \/ main
    \/ analyze_all_stocks
    \/ generate_html
    \/ v35_analyze
    \/ generate_html_report

SpecRebound == InitRebound /\ [][NextRebound]_vars

\* C24 as stated: the rebound strength of every analysed instrument lies
\* between 0 and 100 percent, and is 0 when the 20-period band of the closes
\* has zero width
ReboundWithinBand ==
    \A i \in DOMAIN analyzed :
        (analyzed[i].scored /\ universe[analyzed[i].id].bars.given) =>
            /\ 0 <= analyzed[i].rebound /\ analyzed[i].rebound <= 100
            /\ universe[analyzed[i].id].bars.max_close = universe[analyzed[i].id].bars.min_close
                  => analyzed[i].rebound = 0

\* C24 as coded: in v3.8 the rebound strength is the position of the latest
\* close in the band of the 20 closes, between 0 and 100 and 0 for a band of
\* zero width; in stock_swing_trading.py it is the rise of the latest close
\* over the lowest low of 20 periods, and in v3.5 the rise over the lowest
\* close: never negative, 0 when the close is on that low, and above 100 as
\* soon as the close is more than twice the low
ReboundAsCoded ==
    \A i \in DOMAIN analyzed :
        (analyzed[i].scored /\ universe[analyzed[i].id].bars.given) =>
            LET b == universe[analyzed[i].id].bars
                r == analyzed[i].rebound
            IN  /\ r >= 0
                /\ variant = "v38" => (r <= 100 /\ (b.max_close = b.min_close => r = 0))
                /\ variant = "swing" =>
                      ((b.close = b.low => r = 0) /\ (r > 100 <=> b.close > 2 * b.low))
                /\ variant = "v35" =>
                      ((b.close = b.min_close => r = 0)
                       /\ (r > 100 <=> b.close > 2 * b.min_close))

\* an instrument of stock_swing_trading.py scored with a rebound strength
\* above 100 percent
SwingReboundAboveHundred ==
    /\ variant = "swing"
    /\ \E i \in DOMAIN analyzed :
          /\ analyzed[i].scored
          /\ universe[analyzed[i].id].bars.given
          /\ analyzed[i].rebound > 100

\* C25: in every program that scores the PBR a data provider reports, an
\* instrument whose reported PBR is zero or negative gets zero PBR points
\* (stock_swing_trading.py derives its PBR from equity and shares instead)
NonPositivePbrEarnsNothing ==
    variant # "swing" =>
        \A i \in DOMAIN analyzed :
            (analyzed[i].scored /\ universe[analyzed[i].id].pbr <= 0) =>
                PbrPoints(variant, analyzed[i]) = 0

(***************************************************************************)
(* stock_recommendation_with_exchange.py ("exchange"): its per-instrument  *)
(* analysis scores as stock_recommendation_complete.py does; its           *)
(* select_recommendations numbers every leaderboard with range(1, 6).      *)
(***************************************************************************)
\* rows of a leaderboard of with_exchange (5 in the code)
ExchangeK == 2

\* recommendations[...].index = range(1, 6): pandas raises ValueError
\* (length mismatch) unless the frame has as many rows as the range
exchange_index_fits(board) == Len(board) = ExchangeK

exchange_select_recommendations(res) ==
    LET df == sort_values_desc(res, "score")
    IN  [admitted |-> df, top |-> Take(df, TopN),
         boards |->
            [NoBoards EXCEPT !.rsi = nsmallest(df, ExchangeK, "rsi"),
                             !.disparity = nsmallest(df, ExchangeK, "disparity"),
                             !.volume = nlargest(df, ExchangeK, "volume_ratio")],
         groups |-> NoGroups]

exchange_calculate_technical_indicators == Analyze("exchange")

\* main: recommendations = select_recommendations(df), outside every try;
\* an empty frame returns before the leaderboards are built
exchange_select ==
    /\ variant = "exchange"
    /\ pc = "select"
    /\ LET rec == exchange_select_recommendations(results)
           raised == /\ results # <<>>
                     /\ \E b \in {"rsi", "disparity", "volume"} :
                           ~exchange_index_fits(rec.boards[b])
       IN  /\ out' = IF raised \/ results = <<>> THEN NoOutput ELSE rec
           /\ pc' = IF raised THEN "crashed" ELSE "done"
    /\ UNCHANGED <<variant, universe, all_stocks, idx, analyzed, results, run, prev>>
    /\ UNCHANGED others

InitLeaders ==
    /\ variant \in {"complete", "exchange"}
    /\ universe \in [1..NumStocks -> PipeInputs(variant)]
    /\ all_stocks = [i \in 1..Len(universe) |-> i]
    /\ Idle
    /\ pc = "scan"
    /\ idx = 1
    /\ analyzed = <<>>
    /\ results = <<>>
    /\ out = NoOutput
    /\ run = 1
    /\ prev = NoRun

NextLeaders ==
    \/ calculate_technical_indicators
    \/ complete_select
    \/ exchange_calculate_technical_indicators
    \/ exchange_select

SpecLeaders == InitLeaders /\ [][NextLeaders]_vars

\* the leaderboard size of select_recommendations
LeadersK(v) == IF v = "exchange" THEN ExchangeK ELSE LeaderK

\* C26: for a non-empty scanned set select_recommendations completes without
\* error, and each of its leaderboards holds exactly min(K, number of scanned
\* instruments) entries
LeaderboardsBuiltForAnySize ==
    (pc \in {"done", "crashed"} /\ results # <<>>) =>
        /\ pc = "done"
        /\ \A b \in {"rsi", "disparity", "volume"} :
              Len(out.boards[b]) = Min(LeadersK(variant), Len(results))

(***************************************************************************)
(* stock_swing_trading.py: the cache-backed calls, made again and again    *)
(* on one cache file that starts empty: get_exchange_rates_only (rows of   *)
(* exchange_cache count for 24 hours) and get_financials for one stock     *)
(* code (its row of financial_cache counts for 30 days).                   *)
(***************************************************************************)
\* calls made on the cache file
MaxCalls == 3

\* what the three yfinance lookups give: a quote or None (an empty frame)
\* per currency, and the lookup that raises (0: none)
LookupOutcomes ==
    [usd : {None, 1300}, eur : {None, 1500}, jpy : {None, 9}, fails_at : 0..3]

\* variation: the newest row, whatever its age
get_exchange_cache_any_age(d) ==
    IF d.exchange_cache = <<>> THEN [found |-> FALSE, rates |-> NoRates]
    ELSE LET row == d.exchange_cache[Len(d.exchange_cache)]
         IN  [found |-> TRUE, rates |-> [usd |-> row.usd, eur |-> row.eur, jpy |-> row.jpy]]

\* SELECT usd, eur, jpy FROM exchange_cache WHERE cached_at > ? ORDER BY id
\* DESC LIMIT 1: the newest row younger than 24 hours, or None
get_exchange_cache(d) ==
    LET fresh == SelectSeq(d.exchange_cache, LAMBDA row : row.fresh)
    IN  IF fresh = <<>> THEN [found |-> FALSE, rates |-> NoRates]
        ELSE LET row == fresh[Len(fresh)]
             IN  [found |-> TRUE,
                  rates |-> [usd |-> row.usd, eur |-> row.eur, jpy |-> row.jpy]]

\* INSERT INTO exchange_cache (usd, eur, jpy, cached_at)
set_exchange_cache(d, usd, eur, jpy) ==
    [d EXCEPT !.exchange_cache =
        Append(@, [usd |-> usd, eur |-> eur, jpy |-> jpy, fresh |-> TRUE])]

\* the lookups of get_exchange_rates_only after a cache miss: a lookup that
\* raises ends the try block, the quotes read before it stay in result
lookup_rates(o) ==
    [usd |-> IF o.fails_at = 1 THEN None ELSE o.usd,
     eur |-> IF o.fails_at \in {1, 2} THEN None ELSE o.eur,
     jpy |-> IF o.fails_at \in {1, 2, 3} THEN None ELSE o.jpy]

\* get_exchange_rates_only(cache)
get_exchange_rates_only(o) ==
    /\ calls.n < MaxCalls
    /\ LET cached_rates == get_exchange_cache(financials_db)
           had_fresh == \E k \in DOMAIN financials_db.exchange_cache :
                            financials_db.exchange_cache[k].fresh
           result == lookup_rates(o)
           raised == o.fails_at # 0
           store == ~raised /\ Truthy(result.usd)
       IN  IF cached_rates.found
           THEN /\ calls' = [calls EXCEPT !.n = @ + 1, !.last = "rates",
                                          !.had_fresh = had_fresh, !.hit = TRUE,
                                          !.lookups = 0, !.raised = FALSE,
                                          !.stored = FALSE, !.row = cached_rates.rates,
                                          !.rates = cached_rates.rates]
                /\ UNCHANGED financials_db
           ELSE /\ calls' = [calls EXCEPT !.n = @ + 1, !.last = "rates",
                                          !.had_fresh = had_fresh, !.hit = FALSE,
                                          !.lookups = IF raised THEN o.fails_at ELSE 3,
                                          !.raised = raised, !.stored = store,
                                          !.row = NoRates, !.rates = result,
                                          !.rates_stored = IF store THEN result ELSE @]
                /\ financials_db' =
                       IF store
                       THEN set_exchange_cache(financials_db, result.usd,
                                               OrZero(result.eur), OrZero(result.jpy))
                       ELSE financials_db
    /\ UNCHANGED <<variant, universe, all_stocks, pc, idx, analyzed, results, out,
                   run, prev, pool, dart>>

\* what DART answers: the statement's figures (0: the account is missing),
\* or no usable answer (a status other than 200 / '000', or an exception)
DartAnswers == [ok : BOOLEAN, equity : {0, 3, 0 - 3}, net_income : {0, 2, 0 - 2}]

\* DARTFinancials(...).get_financials for the stock code 1, on a new
\* DARTFinancials object as analyze_stock_worker makes one
get_financials(a) ==
    /\ calls.n < MaxCalls
    /\ LET cached == get_financial_cache(financials_db, 1)
           fin == IF a.ok THEN dart_request(a) ELSE NoFin
       IN  IF cached.hit
           THEN /\ calls' = [calls EXCEPT !.n = @ + 1, !.last = "fin", !.hit = TRUE,
                                          !.fin = [equity |-> cached.equity,
                                                   net_income |-> cached.net_income]]
                /\ UNCHANGED <<financials_db, dart>>
           ELSE /\ financials_db' = IF a.ok THEN get_financials_store(financials_db, 1, fin)
                                    ELSE financials_db
                /\ calls' = [calls EXCEPT !.n = @ + 1, !.last = "fin", !.hit = FALSE,
                                          !.fin = fin,
                                          !.fin_stored =
                                              IF a.ok /\ (Truthy(fin.equity) \/ Truthy(fin.net_income))
                                              THEN fin ELSE @]
                /\ dart' = [dart EXCEPT !.requests = Append(@, dart.now)]
    /\ UNCHANGED <<variant, universe, all_stocks, pc, idx, analyzed, results, out,
                   run, prev, pool>>

\* more than 24 hours pass: the rows of exchange_cache no longer count
hours_pass ==
    /\ \E k \in DOMAIN financials_db.exchange_cache : financials_db.exchange_cache[k].fresh
    /\ financials_db' = [financials_db EXCEPT !.exchange_cache =
           [k \in DOMAIN @ |-> [@[k] EXCEPT !.fresh = FALSE]]]
    /\ calls' = [calls EXCEPT !.last = "none"]
    /\ UNCHANGED <<variant, universe, all_stocks, pc, idx, analyzed, results, out,
                   run, prev, pool, dart>>

\* more than 30 days pass: the row of financial_cache no longer counts
days_pass ==
    /\ financials_db.financial_cache[1].cached
    /\ financials_db' = [financials_db EXCEPT
           !.financial_cache[1] = NoRow,
           !.exchange_cache = [k \in DOMAIN @ |-> [@[k] EXCEPT !.fresh = FALSE]]]
    /\ calls' = [calls EXCEPT !.last = "none"]
    /\ UNCHANGED <<variant, universe, all_stocks, pc, idx, analyzed, results, out,
                   run, prev, pool, dart>>

InitCache ==
    /\ variant = "swing"
    /\ universe = <<Strong>>
    /\ all_stocks = <<1>>
    /\ pc = "scan"
    /\ idx = 1
    /\ analyzed = <<>>
    /\ results = <<>>
    /\ out = NoOutput
    /\ run = 1
    /\ prev = NoRun
    /\ pool = <<>>
    /\ financials_db = [financial_cache |-> <<NoRow>>, at_start |-> <<NoRow>>,
                        exchange_cache |-> <<>>]
    /\ calls = NoCalls
    /\ dart = NoTraffic

NextCache ==
    \/ \E o \in LookupOutcomes : get_exchange_rates_only(o)
    \/ \E a \in DartAnswers : get_financials(a)
    \/ hours_pass
    \/ days_pass

SpecCache == InitCache /\ [][NextCache]_vars

\* C27 as stated: get_exchange_rates_only takes the cached rates exactly
\* when a row younger than 24 hours exists, then returns that row's rates
\* without any external lookup; otherwise it performs the lookup and stores
\* the rates exactly when a USD rate was obtained
RatesStoredWheneverUsdObtained ==
    calls.last = "rates" =>
        /\ calls.hit <=> calls.had_fresh
        /\ calls.hit => (calls.lookups = 0 /\ calls.rates = calls.row /\ ~calls.stored)
        /\ ~calls.hit => (calls.lookups > 0 /\ (calls.stored <=> calls.rates.usd # None))

\* C27 as coded: the same, but after a miss the rates are stored exactly
\* when all three lookups returned without raising and the USD quote is
\* there; a USD rate obtained before a later lookup raised is returned and
\* not stored
RatesStoredWhenLookupsCompleted ==
    calls.last = "rates" =>
        /\ calls.hit <=> calls.had_fresh
        /\ calls.hit => (calls.lookups = 0 /\ calls.rates = calls.row /\ ~calls.stored)
        /\ ~calls.hit =>
              /\ calls.lookups > 0
              /\ calls.stored <=> (~calls.raised /\ Truthy(calls.rates.usd))
              /\ calls.stored =>
                    get_exchange_cache(financials_db).rates =
                        [usd |-> calls.rates.usd, eur |-> OrZero(calls.rates.eur),
                         jpy |-> OrZero(calls.rates.jpy)]

\* a call found no fresh row, obtained the USD rate, and stored nothing
\* because a later lookup raised
UsdObtainedNotStored ==
    /\ calls.last = "rates"
    /\ ~calls.hit
    /\ calls.rates.usd # None
    /\ calls.raised
    /\ ~calls.stored

\* C28: on a cache hit get_exchange_rates_only and get_financials return
\* what the call that populated the cache returned, fields it returned as
\* None included
CachedValuesRoundTrip ==
    /\ (calls.last = "rates" /\ calls.hit) => calls.rates = calls.rates_stored
    /\ (calls.last = "fin" /\ calls.hit) => calls.fin = calls.fin_stored

(***************************************************************************)
(* stock_swing_trading.py: the DART traffic of a pooled run on an empty    *)
(* financial_cache, with the clock running.                                *)
(***************************************************************************)
\* ticks of the clock a run is followed for
MaxTime == 3

\* time passes while the pool works
tick ==
    /\ pc = "scan"
    /\ pool # <<>>
    /\ dart.now < MaxTime
    /\ dart' = [dart EXCEPT !.now = @ + 1]
    /\ UNCHANGED <<variant, universe, all_stocks, pc, idx, analyzed, results, out,
                   run, prev, pool, financials_db, calls>>

InitDart ==
    /\ variant = "swing"
    /\ universe \in [1..NumStocks ->
                        {Strong, [Strong EXCEPT !.equity = 0, !.net_income = 0 - 1]}]
    /\ all_stocks = [i \in 1..Len(universe) |-> i]
    /\ pc = "scan"
    /\ idx = 1
    /\ analyzed = <<>>
    /\ results = <<>>
    /\ out = NoOutput
    /\ run = 1
    /\ prev = NoRun
    /\ pool = [i \in 1..Len(universe) |-> NewTask(i)]
    /\ financials_db = [financial_cache |-> [i \in 1..Len(universe) |-> NoRow],
                        at_start |-> [i \in 1..Len(universe) |-> NoRow],
                        exchange_cache |-> <<>>]
    /\ calls = NoCalls
    /\ dart = NoTraffic

NextDart ==
    \/ \E i \in DOMAIN pool : pool_dispatch(i)
    \/ \E i \in DOMAIN pool : worker_get_financial_cache(i)
    \/ \E i \in DOMAIN pool : worker_get_financials(i)
    \/ \E i \in DOMAIN pool : worker_return(i)
    \/ pool_map
    \/ main
    \/ tick

SpecDart == InitDart /\ [][NextDart]_vars

\* the requests sent to DART in the window that starts at t
RequestsIn(t) ==
    {k \in DOMAIN dart.requests : t <= dart.requests[k] /\ dart.requests[k] < t + Window}

\* C29: over all instruments and all worker processes of a run, no window
\* of the limiter's length sees more uncached get_financials requests than
\* the limiter's count allows (90 within 60 seconds in the code)
DartTrafficBounded ==
    \A t \in 0..MaxTime : Cardinality(RequestsIn(t)) <= RateLimit

(***************************************************************************)
(* stock_swing_trading.py on instruments of every risk tier, all of them   *)
(* with a score that admits them to the Top list.                          *)
(***************************************************************************)
RiskProfiles ==
    { \* no risk factor
      Strong,
      \* a wide price range and a volume surge: 25 + 20
      [Strong EXCEPT !.volatility_range = 60, !.volume_ratio = 510, !.tv = 8],
      \* a loss-making company: 50
      [Strong EXCEPT !.net_income = 0 - 1, !.tv = 6],
      \* loss-making with a wide price range: 75, High
      [Strong EXCEPT !.net_income = 0 - 1, !.volatility_range = 60, !.tv = 9] }

InitRisk ==
    /\ variant = "swing"
    /\ universe \in [1..NumStocks -> RiskProfiles]
    /\ all_stocks = [i \in 1..Len(universe) |-> i]
    /\ Idle
    /\ pc = "scan"
    /\ idx = 1
    /\ analyzed = <<>>
    /\ results = <<>>
    /\ out = NoOutput
    /\ run = 1
    /\ prev = NoRun

NextRisk ==
    \/ analyze_stock_worker
    \/ main

SpecRisk == InitRisk /\ [][NextRisk]_vars

\* the instruments of the Top list with a risk score below 30
LowRiskInTop == SelectSeq(Take(out.top, TopN), LAMBDA x : x.risk_score < 30)

=============================================================================
